---- MODULE Spec2Model ----
(***************************************************************************)
(* Model of serde/src/de/buffer.rs: the buffered self-describing value     *)
(* (Buffer / BufferInner), the visitor that builds it (BufferVisitor), and *)
(* the two replay adapters (BufferDeserializer, which consumes the value,  *)
(* and BufferRefDeserializer, which replays from a reference), and the     *)
(* enum helpers that replay the payload of a variant.                      *)
(*                                                                         *)
(* Representation.  Every buffered value is a record                       *)
(*     [tag, val, kids]                                                    *)
(* tag  : the BufferInner case name                                        *)
(* val  : the scalar payload as a sequence of integers (<<n>> for a number *)
(*        bool or char, the code units for a string or byte case)          *)
(* kids : the nested values (one for Some/Newtype, the items of a Seq, the *)
(*        entries of a Map flattened as k1, v1, k2, v2, ...)               *)
(* Every visitor call / error is a record                                  *)
(*     [ok, cb, val, de, kids, unexp, exp]                                 *)
(* ok = TRUE : callback cb was invoked with scalar val, or with an access  *)
(*             object of type de over kids                                 *)
(* ok = FALSE: error of kind cb, carrying de::Unexpected unexp (with val)  *)
(*             and the expectation exp                                     *)
(***************************************************************************)
EXTENDS Integers, Sequences, FiniteSets, TLC

\* ------------------------------------------------------------------ bounds
MaxLen == 3          \* longest Seq / Map payload that is enumerated
MaxAttempts == 2     \* replay attempts made over one buffered value

\* ------------------------------------------------------- value constructors
Buf(tag, val, kids) == [tag |-> tag, val |-> val, kids |-> kids]

\* The value has been moved into an owned adapter (Rust move semantics).
Moved == Buf("<moved>", <<>>, <<>>)
\* No value has been built yet.
NoBuffer == Buf("<none>", <<>>, <<>>)
\* The build failed with the custom error of BufferVisitor::visit_enum.
BuildError == Buf("<error>", <<>>, <<>>)
\* The build failed with an error raised by the decoder itself.
DecoderError == Buf("<error>", <<1>>, <<>>)
\* v is the error of a failed build, not a value
Failed(v) == v.tag = "<error>"

IntegerTags == {"U8", "U16", "U32", "U64", "U128", "I8", "I16", "I32", "I64", "I128"}
FloatTags == {"F32", "F64"}
StringTags == {"String", "Str"}
BytesTags == {"ByteBuf", "Bytes"}

\* visitor callback invoked with a scalar
Call(cb, val) ==
    [ok |-> TRUE, cb |-> cb, val |-> val, de |-> "", kids |-> <<>>,
     unexp |-> "", exp |-> ""]
\* visitor callback invoked with a deserializer / access object over kids
CallWith(cb, de, kids) ==
    [ok |-> TRUE, cb |-> cb, val |-> <<>>, de |-> de, kids |-> kids,
     unexp |-> "", exp |-> ""]
\* de::Error::{invalid_type, invalid_value, invalid_length, custom}
Err(kind, unexp, val, exp) ==
    [ok |-> FALSE, cb |-> kind, val |-> val, de |-> "", kids |-> <<>>,
     unexp |-> unexp, exp |-> exp]
\* Ok(buffer) returned to Buffer::deserialize without any visitor callback
OkBuffer(b) ==
    [ok |-> TRUE, cb |-> "Ok", val |-> <<>>, de |-> "Buffer", kids |-> <<b>>,
     unexp |-> "", exp |-> ""]
\* no call has been made yet
NoCall == Err("<pending>", "", <<>>, "")

\* BufferInner::unexpected: classification used by every error path
unexpected(b) ==
    CASE b.tag = "Bool" -> [kind |-> "Bool", val |-> b.val]
      [] b.tag \in {"U8", "U16", "U32", "U64"} -> [kind |-> "Unsigned", val |-> b.val]
      [] b.tag \in {"I8", "I16", "I32", "I64"} -> [kind |-> "Signed", val |-> b.val]
      [] b.tag \in FloatTags -> [kind |-> "Float", val |-> b.val]
      [] b.tag = "Char" -> [kind |-> "Char", val |-> b.val]
      [] b.tag \in StringTags -> [kind |-> "Str", val |-> b.val]
      [] b.tag \in BytesTags -> [kind |-> "Bytes", val |-> b.val]
      [] b.tag \in {"None", "Some"} -> [kind |-> "Option", val |-> <<>>]
      [] b.tag = "Unit" -> [kind |-> "Unit", val |-> <<>>]
      [] b.tag = "Newtype" -> [kind |-> "NewtypeStruct", val |-> <<>>]
      [] b.tag = "Seq" -> [kind |-> "Seq", val |-> <<>>]
      [] b.tag = "Map" -> [kind |-> "Map", val |-> <<>>]
      [] b.tag \in {"I128", "U128"} -> [kind |-> "Other:128-bit integer", val |-> <<>>]

\* BufferDeserializer::invalid_type / BufferRefDeserializer::invalid_type
invalid_type(b) ==
    Err("invalid_type", unexpected(b).kind, unexpected(b).val, "visitor")

\* ------------------------------------------------- what a decoder can push
\* A source decoder is identified with the visitor call it makes:
\* [cb, val, kids]; val is the scalar pushed, or for a sequence / map
\* access its size hint (<<>> for None, <<n>> for Some(n)); kids are the
\* nested decoders handed to the visitor
\* (the inner decoder of visit_some / visit_newtype_struct, the elements of
\* a sequence access, the flattened key/value decoders of a map access).
Ev(cb, val, kids) == [cb |-> cb, val |-> val, kids |-> kids]

RECURSIVE SeqsUpTo(_, _)
\* all sequences over S of length 0..n
SeqsUpTo(S, n) ==
    IF n = 0 THEN {<<>>}
    ELSE LET shorter == SeqsUpTo(S, n - 1)
         IN shorter \cup {Append(q, x) : q \in {r \in shorter : Len(r) = n - 1}, x \in S}

RECURSIVE Flatten(_)
\* <<<<k1, v1>>, <<k2, v2>>>> as <<k1, v1, k2, v2>>
Flatten(pairs) ==
    IF pairs = <<>> THEN <<>>
    ELSE <<Head(pairs)[1], Head(pairs)[2]>> \o Flatten(Tail(pairs))

TextSamples == {<<97>>, <<97, 98>>}
\* <<255>> is not valid UTF-8; <<195, 159>> is the two-byte encoding of U+00DF
ByteSamples == {<<97>>, <<255>>, <<195, 159>>}

ScalarSources ==
    {Ev("visit_bool", <<n>>, <<>>) : n \in {0, 1}}
    \cup {Ev("visit_u8", <<n>>, <<>>) : n \in {0, 255}}
    \cup {Ev("visit_u16", <<65535>>, <<>>), Ev("visit_u32", <<70000>>, <<>>),
          Ev("visit_u64", <<32>>, <<>>), Ev("visit_u128", <<5>>, <<>>)}
    \cup {Ev("visit_i8", <<n>>, <<>>) : n \in {-128, 127}}
    \cup {Ev("visit_i16", <<-32768>>, <<>>), Ev("visit_i32", <<-70000>>, <<>>),
          Ev("visit_i64", <<-32>>, <<>>), Ev("visit_i128", <<-5>>, <<>>)}
    \cup {Ev("visit_f32", <<1>>, <<>>), Ev("visit_f64", <<2>>, <<>>)}
    \cup {Ev("visit_char", <<n>>, <<>>) : n \in {97, 223}}
    \cup {Ev("visit_unit", <<>>, <<>>), Ev("visit_none", <<>>, <<>>)}

StringSources ==
    {Ev(cb, s, <<>>) : cb \in {"visit_str", "visit_borrowed_str", "visit_string"},
                       s \in TextSamples}
    \cup {Ev(cb, s, <<>>) : cb \in {"visit_bytes", "visit_borrowed_bytes", "visit_byte_buf"},
                            s \in ByteSamples}

LeafSources == ScalarSources \cup StringSources

\* elements, keys and values used inside composite sources
ElemSources ==
    {Ev("visit_u64", <<32>>, <<>>), Ev("visit_borrowed_str", <<97>>, <<>>),
     Ev("visit_unit", <<>>, <<>>)}
ValueSources ==
    {Ev("visit_u64", <<32>>, <<>>), Ev("visit_unit", <<>>, <<>>)}
\* key/value pairs used as map entries; the same key may repeat
EntrySources ==
    {<<Ev("visit_borrowed_str", <<97>>, <<>>), Ev("visit_u64", <<32>>, <<>>)>>,
     <<Ev("visit_borrowed_str", <<97>>, <<>>), Ev("visit_unit", <<>>, <<>>)>>,
     <<Ev("visit_string", <<97, 98>>, <<>>), Ev("visit_u64", <<32>>, <<>>)>>}

SeqSources == {Ev("visit_seq", <<>>, items) : items \in SeqsUpTo(ElemSources, MaxLen)}
MapSources ==
    {Ev("visit_map", <<>>, Flatten(entries)) :
        entries \in SeqsUpTo(EntrySources, MaxLen)}

SmallComposites ==
    {Ev("visit_seq", <<>>, items) : items \in SeqsUpTo(ValueSources, 2)}
    \cup {Ev("visit_map", <<>>, Flatten(entries)) :
            entries \in SeqsUpTo({<<Ev("visit_borrowed_str", <<97>>, <<>>),
                                    Ev("visit_u64", <<32>>, <<>>)>>}, 1)}

WrapSources ==
    {Ev(cb, <<>>, <<inner>>) : cb \in {"visit_some", "visit_newtype_struct"},
                               inner \in ElemSources \cup SmallComposites
                                          \cup {Ev("visit_none", <<>>, <<>>),
                                                Ev("visit_string", <<97>>, <<>>)}}

\* externally tagged enum: a single-key map whose value is the payload
TaggedSources ==
    {Ev("visit_map", <<>>, <<Ev("visit_borrowed_str", <<97>>, <<>>), payload>>) :
        payload \in SmallComposites
                    \cup {Ev("visit_some", <<>>, <<Ev("visit_u64", <<32>>, <<>>)>>),
                          Ev("visit_newtype_struct", <<>>, <<Ev("visit_unit", <<>>, <<>>)>>)}}

\* an enum access: kids are the variant and its payload
EnumSources ==
    {Ev("visit_enum", <<>>, <<>>),
     Ev("visit_enum", <<>>, <<Ev("visit_borrowed_str", <<97>>, <<>>),
                              Ev("visit_unit", <<>>, <<>>)>>),
     Ev("visit_enum", <<>>, <<Ev("visit_u32", <<70000>>, <<>>),
                              Ev("visit_seq", <<>>, <<Ev("visit_u64", <<32>>, <<>>)>>)>>),
     Ev("visit_some", <<>>, <<Ev("visit_enum", <<>>, <<>>)>>),
     Ev("visit_seq", <<>>, <<Ev("visit_u64", <<32>>, <<>>), Ev("visit_enum", <<>>, <<>>)>>),
     Ev("visit_map", <<>>, <<Ev("visit_borrowed_str", <<97>>, <<>>), Ev("visit_enum", <<>>, <<>>)>>)}

\* a decoder that fails with its own error instead of pushing ("error"),
\* as an element, a key or a value
FailingSources ==
    {Ev("visit_seq", <<>>, <<Ev("visit_u64", <<32>>, <<>>), Ev("error", <<>>, <<>>),
                             Ev("visit_enum", <<>>, <<>>)>>),
     Ev("visit_seq", <<>>, <<Ev("visit_enum", <<>>, <<>>), Ev("error", <<>>, <<>>)>>),
     Ev("visit_map", <<>>, <<Ev("error", <<>>, <<>>), Ev("visit_u64", <<32>>, <<>>)>>),
     Ev("visit_map", <<>>, <<Ev("visit_borrowed_str", <<97>>, <<>>), Ev("visit_unit", <<>>, <<>>),
                             Ev("visit_borrowed_str", <<97>>, <<>>), Ev("error", <<>>, <<>>)>>)}

\* size hints: absent, or any number up to one more than the longest access
Hints == {<<>>} \cup {<<n>> : n \in 0..(MaxLen + 1)}

\* sequence and map accesses with every size hint, right or wrong
HintedSources ==
    {Ev(s.cb, h, s.kids) :
        s \in SeqSources \cup MapSources \cup FailingSources
               \cup {e \in EnumSources : e.cb \in {"visit_seq", "visit_map"}},
        h \in Hints}

\* what an enum target is replayed from: an externally tagged variant with
\* a map, sequence, scalar or wrapped payload, or a bare string
VariantSources ==
    {Ev("visit_map", <<>>, <<Ev("visit_borrowed_str", <<97>>, <<>>), payload>>) :
        payload \in MapSources \cup SmallComposites
                    \cup {Ev("visit_u64", <<32>>, <<>>), Ev("visit_unit", <<>>, <<>>)}}
    \cup {Ev("visit_string", <<97>>, <<>>)}

Sources ==
    LeafSources \cup SeqSources \cup MapSources \cup WrapSources
    \cup TaggedSources \cup EnumSources \cup FailingSources

\* ------------------------------------------------------------ the builder
\* faulty variant: a transient string slice is kept as if it were borrowed
\* from the input
ScalarCase_borrowing_transient(cb) ==
    CASE cb = "visit_bool" -> "Bool"
      [] cb = "visit_i8" -> "I8"
      [] cb = "visit_i16" -> "I16"
      [] cb = "visit_i32" -> "I32"
      [] cb = "visit_i64" -> "I64"
      [] cb = "visit_u8" -> "U8"
      [] cb = "visit_u16" -> "U16"
      [] cb = "visit_u32" -> "U32"
      [] cb = "visit_u64" -> "U64"
      [] cb = "visit_i128" -> "I128"
      [] cb = "visit_u128" -> "U128"
      [] cb = "visit_f32" -> "F32"
      [] cb = "visit_f64" -> "F64"
      [] cb = "visit_char" -> "Char"
      [] cb = "visit_str" -> "Str"
      [] cb = "visit_borrowed_str" -> "Str"
      [] cb = "visit_string" -> "String"
      [] cb = "visit_bytes" -> "ByteBuf"
      [] cb = "visit_borrowed_bytes" -> "Bytes"
      [] cb = "visit_byte_buf" -> "ByteBuf"
      [] cb = "visit_unit" -> "Unit"
      [] cb = "visit_none" -> "None"

\* BufferVisitor::visit_bool .. visit_none: the case each scalar push becomes
ScalarCase(cb) ==
    CASE cb = "visit_bool" -> "Bool"
      [] cb = "visit_i8" -> "I8"
      [] cb = "visit_i16" -> "I16"
      [] cb = "visit_i32" -> "I32"
      [] cb = "visit_i64" -> "I64"
      [] cb = "visit_u8" -> "U8"
      [] cb = "visit_u16" -> "U16"
      [] cb = "visit_u32" -> "U32"
      [] cb = "visit_u64" -> "U64"
      [] cb = "visit_i128" -> "I128"
      [] cb = "visit_u128" -> "U128"
      [] cb = "visit_f32" -> "F32"
      [] cb = "visit_f64" -> "F64"
      [] cb = "visit_char" -> "Char"
      [] cb = "visit_str" -> "String"
      [] cb = "visit_borrowed_str" -> "Str"
      [] cb = "visit_string" -> "String"
      [] cb = "visit_bytes" -> "ByteBuf"
      [] cb = "visit_borrowed_bytes" -> "Bytes"
      [] cb = "visit_byte_buf" -> "ByteBuf"
      [] cb = "visit_unit" -> "Unit"
      [] cb = "visit_none" -> "None"

\* faulty variant: the enum access is asked for its variant, which is
\* buffered as an externally tagged unit variant
BufferVisitor_visit_enum_as_tagged(src) ==
    IF src.kids = <<>> THEN BuildError
    ELSE Buf("Map", <<>>, <<Buf("Str", src.kids[1].val, <<>>), Buf("Unit", <<>>, <<>>)>>)

\* BufferVisitor::visit_enum: the access is dropped unused
BufferVisitor_visit_enum(src) == BuildError

\* size_hint::cautious: the capacity reserved up front is the hint, bounded
PreallocLimit == 2
cautious(h) ==
    IF h = <<>> THEN 0
    ELSE IF h[1] < PreallocLimit THEN h[1] ELSE PreallocLimit

\* Vec::with_capacity / Vec::push: val is the capacity, kids the items; a
\* push into a full vector grows it
Vec_with_capacity(c) == Buf("Vec", <<c>>, <<>>)
Vec_push(vec, items) ==
    LET len == Len(vec.kids) \div Len(items)
        cap == vec.val[1]
    IN Buf("Vec", <<IF len < cap THEN cap ELSE IF 2 * cap > 4 THEN 2 * cap ELSE 4>>,
           vec.kids \o items)

RECURSIVE Buffer_deserialize(_)

RECURSIVE visit_seq_loop(_, _)
\* while let Some(e) = visitor.next_element()? { vec.push(e) }
visit_seq_loop(access, vec) ==
    IF access = <<>> THEN vec
    ELSE LET e == Buffer_deserialize(Head(access))
         IN IF Failed(e) THEN e
            ELSE visit_seq_loop(Tail(access), Vec_push(vec, <<e>>))

RECURSIVE visit_map_loop(_, _)
\* while let Some(kv) = visitor.next_entry()? { vec.push(kv) }
visit_map_loop(access, vec) ==
    IF access = <<>> THEN vec
    ELSE LET k == Buffer_deserialize(access[1])
             v == Buffer_deserialize(access[2])
         IN IF Failed(k) THEN k
            ELSE IF Failed(v) THEN v
            ELSE visit_map_loop(Tail(Tail(access)), Vec_push(vec, <<k, v>>))

\* faulty variant: the size hint is trusted as the number of elements
BufferVisitor_visit_seq_trusting_hint(access, h) ==
    LET n == IF h = <<>> \/ h[1] > Len(access) THEN Len(access) ELSE h[1]
        vec == visit_seq_loop(SubSeq(access, 1, n), Vec_with_capacity(cautious(h)))
    IN IF Failed(vec) THEN vec ELSE Buf("Seq", <<>>, vec.kids)

\* BufferVisitor::visit_seq over a sequence access with size hint h
BufferVisitor_visit_seq(access, h) ==
    LET vec == visit_seq_loop(access, Vec_with_capacity(cautious(h)))
    IN IF Failed(vec) THEN vec ELSE Buf("Seq", <<>>, vec.kids)

\* BufferVisitor::visit_map over a map access with size hint h
BufferVisitor_visit_map(access, h) ==
    LET vec == visit_map_loop(access, Vec_with_capacity(cautious(h)))
    IN IF Failed(vec) THEN vec ELSE Buf("Map", <<>>, vec.kids)

\* Buffer::deserialize: drive the decoder with a BufferVisitor.  The decoder
\* src calls the visit method src.cb; nested decoders are buffered through
\* Deserialize::deserialize again, and an error of a nested build is
\* returned as the error of the whole build.
Buffer_deserialize(src) ==
    CASE src.cb = "visit_some" ->
            LET v == Buffer_deserialize(src.kids[1])
            IN IF Failed(v) THEN v ELSE Buf("Some", <<>>, <<v>>)
      [] src.cb = "visit_newtype_struct" ->
            LET v == Buffer_deserialize(src.kids[1])
            IN IF Failed(v) THEN v ELSE Buf("Newtype", <<>>, <<v>>)
      [] src.cb = "visit_seq" -> BufferVisitor_visit_seq(src.kids, src.val)
      [] src.cb = "visit_map" -> BufferVisitor_visit_map(src.kids, src.val)
      [] src.cb = "visit_enum" -> BufferVisitor_visit_enum(src)
      [] src.cb = "error" -> DecoderError
      [] OTHER -> Buf(ScalarCase(src.cb), src.val, <<>>)

\* the error a failed build returns
build_error(v) ==
    IF v = BuildError
    THEN Err("custom", "", <<>>,
             "untagged and internally tagged enums do not support enum input")
    ELSE Err("decoder", "", <<>>, "")

\* ------------------------------------------- owned adapter: BufferDeserializer
\* Each operator is one deserialize_* method applied to the wrapped value b;
\* its result is the visitor callback the method makes, or the error it
\* returns without calling the visitor.

\* visit_buffer_seq / visit_buffer_map hand the visitor a
\* de::value::SeqDeserializer / MapDeserializer over owned adapters
visit_buffer_seq(items) == CallWith("visit_seq", "value::SeqDeserializer", items)
visit_buffer_map(entries) == CallWith("visit_map", "value::MapDeserializer", entries)

\* the callback that forwards an integer case at its own width
IntegerCallback(tag) ==
    CASE tag = "U8" -> "visit_u8"
      [] tag = "U16" -> "visit_u16"
      [] tag = "U32" -> "visit_u32"
      [] tag = "U64" -> "visit_u64"
      [] tag = "I8" -> "visit_i8"
      [] tag = "I16" -> "visit_i16"
      [] tag = "I32" -> "visit_i32"
      [] tag = "I64" -> "visit_i64"
      [] tag = "U128" -> "visit_u128"
      [] tag = "I128" -> "visit_i128"

\* faulty variant: every integer case is widened and forwarded as u64
BufferDeserializer_deserialize_integer_widening(b) ==
    IF b.tag \in IntegerTags THEN Call("visit_u64", b.val)
    ELSE invalid_type(b)

BufferDeserializer_deserialize_integer(b) ==
    IF b.tag \in IntegerTags THEN Call(IntegerCallback(b.tag), b.val)
    ELSE invalid_type(b)

BufferDeserializer_deserialize_float(b) ==
    CASE b.tag = "F32" -> Call("visit_f32", b.val)
      [] b.tag = "F64" -> Call("visit_f64", b.val)
      [] b.tag \in IntegerTags -> Call(IntegerCallback(b.tag), b.val)
      [] OTHER -> invalid_type(b)

BufferDeserializer_deserialize_any(b) ==
    CASE b.tag = "Bool" -> Call("visit_bool", b.val)
      [] b.tag \in IntegerTags -> Call(IntegerCallback(b.tag), b.val)
      [] b.tag = "F32" -> Call("visit_f32", b.val)
      [] b.tag = "F64" -> Call("visit_f64", b.val)
      [] b.tag = "Char" -> Call("visit_char", b.val)
      [] b.tag = "String" -> Call("visit_string", b.val)
      [] b.tag = "Str" -> Call("visit_borrowed_str", b.val)
      [] b.tag = "ByteBuf" -> Call("visit_byte_buf", b.val)
      [] b.tag = "Bytes" -> Call("visit_borrowed_bytes", b.val)
      [] b.tag = "Unit" -> Call("visit_unit", <<>>)
      [] b.tag = "None" -> Call("visit_none", <<>>)
      [] b.tag = "Some" -> CallWith("visit_some", "BufferDeserializer", b.kids)
      [] b.tag = "Newtype" -> CallWith("visit_newtype_struct", "BufferDeserializer", b.kids)
      [] b.tag = "Seq" -> visit_buffer_seq(b.kids)
      [] b.tag = "Map" -> visit_buffer_map(b.kids)

BufferDeserializer_deserialize_bool(b) ==
    IF b.tag = "Bool" THEN Call("visit_bool", b.val) ELSE invalid_type(b)

BufferDeserializer_deserialize_char(b) ==
    CASE b.tag = "Char" -> Call("visit_char", b.val)
      [] b.tag = "String" -> Call("visit_string", b.val)
      [] b.tag = "Str" -> Call("visit_borrowed_str", b.val)
      [] OTHER -> invalid_type(b)

BufferDeserializer_deserialize_string(b) ==
    CASE b.tag = "String" -> Call("visit_string", b.val)
      [] b.tag = "Str" -> Call("visit_borrowed_str", b.val)
      [] b.tag = "ByteBuf" -> Call("visit_byte_buf", b.val)
      [] b.tag = "Bytes" -> Call("visit_borrowed_bytes", b.val)
      [] OTHER -> invalid_type(b)

\* faulty variant: a byte-buffer target has no arm for Seq
BufferDeserializer_deserialize_byte_buf_no_seq(b) ==
    CASE b.tag = "String" -> Call("visit_string", b.val)
      [] b.tag = "Str" -> Call("visit_borrowed_str", b.val)
      [] b.tag = "ByteBuf" -> Call("visit_byte_buf", b.val)
      [] b.tag = "Bytes" -> Call("visit_borrowed_bytes", b.val)
      [] OTHER -> invalid_type(b)

BufferDeserializer_deserialize_byte_buf(b) ==
    CASE b.tag = "String" -> Call("visit_string", b.val)
      [] b.tag = "Str" -> Call("visit_borrowed_str", b.val)
      [] b.tag = "ByteBuf" -> Call("visit_byte_buf", b.val)
      [] b.tag = "Bytes" -> Call("visit_borrowed_bytes", b.val)
      [] b.tag = "Seq" -> visit_buffer_seq(b.kids)
      [] OTHER -> invalid_type(b)

\* faulty variant: no arm for Unit, which is then wrapped like any other case
BufferDeserializer_deserialize_option_no_unit_arm(b) ==
    CASE b.tag = "None" -> Call("visit_none", <<>>)
      [] b.tag = "Some" -> CallWith("visit_some", "BufferDeserializer", b.kids)
      [] OTHER -> CallWith("visit_some", "BufferDeserializer", <<b>>)

BufferDeserializer_deserialize_option(b) ==
    CASE b.tag = "None" -> Call("visit_none", <<>>)
      [] b.tag = "Some" -> CallWith("visit_some", "BufferDeserializer", b.kids)
      [] b.tag = "Unit" -> Call("visit_unit", <<>>)
      [] OTHER -> CallWith("visit_some", "BufferDeserializer", <<b>>)

\* faulty variant: the empty-map arm is missing
BufferDeserializer_deserialize_unit_strict(b) ==
    IF b.tag = "Unit" THEN Call("visit_unit", <<>>) ELSE invalid_type(b)

BufferDeserializer_deserialize_unit(b) ==
    CASE b.tag = "Unit" -> Call("visit_unit", <<>>)
      [] b.tag = "Map" /\ b.kids = <<>> -> Call("visit_unit", <<>>)
      [] OTHER -> invalid_type(b)

\* faulty variant: anything but an empty Map / Seq is rejected
BufferDeserializer_deserialize_unit_struct_strict(b) ==
    CASE b.tag = "Map" /\ b.kids = <<>> -> Call("visit_unit", <<>>)
      [] b.tag = "Seq" /\ b.kids = <<>> -> Call("visit_unit", <<>>)
      [] b.tag = "Unit" -> Call("visit_unit", <<>>)
      [] OTHER -> invalid_type(b)

BufferDeserializer_deserialize_unit_struct(b) ==
    CASE b.tag = "Map" /\ b.kids = <<>> -> Call("visit_unit", <<>>)
      [] b.tag = "Seq" /\ b.kids = <<>> -> Call("visit_unit", <<>>)
      [] OTHER -> BufferDeserializer_deserialize_any(b)

BufferDeserializer_deserialize_newtype_struct(b) ==
    IF b.tag = "Newtype"
    THEN CallWith("visit_newtype_struct", "BufferDeserializer", b.kids)
    ELSE CallWith("visit_newtype_struct", "BufferDeserializer", <<b>>)

BufferDeserializer_deserialize_seq(b) ==
    IF b.tag = "Seq" THEN visit_buffer_seq(b.kids) ELSE invalid_type(b)

\* faulty variant: a map target also takes a Seq, as a struct target does
BufferDeserializer_deserialize_map_lenient(b) ==
    CASE b.tag = "Seq" -> visit_buffer_seq(b.kids)
      [] b.tag = "Map" -> visit_buffer_map(b.kids)
      [] OTHER -> invalid_type(b)

BufferDeserializer_deserialize_map(b) ==
    IF b.tag = "Map" THEN visit_buffer_map(b.kids) ELSE invalid_type(b)

BufferDeserializer_deserialize_struct(b) ==
    CASE b.tag = "Seq" -> visit_buffer_seq(b.kids)
      [] b.tag = "Map" -> visit_buffer_map(b.kids)
      [] OTHER -> invalid_type(b)

\* faulty variant: the second iter.next() check is missing, so the first
\* entry of a longer map is taken as the variant
BufferDeserializer_deserialize_enum_first_entry(b) ==
    CASE b.tag = "Map" ->
            IF Len(b.kids) = 0
            THEN Err("invalid_value", "Map", <<>>, "map with a single key")
            ELSE CallWith("visit_enum", "EnumDeserializer", <<b.kids[1], b.kids[2]>>)
      [] b.tag \in StringTags -> CallWith("visit_enum", "EnumDeserializer", <<b>>)
      [] OTHER -> Err("invalid_type", unexpected(b).kind, unexpected(b).val, "string or map")

\* EnumDeserializer::new(variant, value): kids = <<variant>> when there is
\* no payload and <<variant, payload>> when there is one
BufferDeserializer_deserialize_enum(b) ==
    CASE b.tag = "Map" ->
            \* iter.next() is None: no entry; a second iter.next() is Some:
            \* two or more entries (kids holds two values per entry)
            IF Len(b.kids) = 0
            THEN Err("invalid_value", "Map", <<>>, "map with a single key")
            ELSE IF Len(b.kids) > 2
            THEN Err("invalid_value", "Map", <<>>, "map with a single key")
            ELSE CallWith("visit_enum", "EnumDeserializer", <<b.kids[1], b.kids[2]>>)
      [] b.tag \in StringTags -> CallWith("visit_enum", "EnumDeserializer", <<b>>)
      [] OTHER -> Err("invalid_type", unexpected(b).kind, unexpected(b).val, "string or map")

\* faulty variant: every unsigned integer width is taken as an identifier
BufferDeserializer_deserialize_identifier_any_unsigned(b) ==
    CASE b.tag = "String" -> Call("visit_string", b.val)
      [] b.tag = "Str" -> Call("visit_borrowed_str", b.val)
      [] b.tag = "ByteBuf" -> Call("visit_byte_buf", b.val)
      [] b.tag = "Bytes" -> Call("visit_borrowed_bytes", b.val)
      [] b.tag = "U8" -> Call("visit_u8", b.val)
      [] b.tag = "U16" -> Call("visit_u16", b.val)
      [] b.tag = "U32" -> Call("visit_u32", b.val)
      [] b.tag = "U64" -> Call("visit_u64", b.val)
      [] OTHER -> invalid_type(b)

BufferDeserializer_deserialize_identifier(b) ==
    CASE b.tag = "String" -> Call("visit_string", b.val)
      [] b.tag = "Str" -> Call("visit_borrowed_str", b.val)
      [] b.tag = "ByteBuf" -> Call("visit_byte_buf", b.val)
      [] b.tag = "Bytes" -> Call("visit_borrowed_bytes", b.val)
      [] b.tag = "U8" -> Call("visit_u8", b.val)
      [] b.tag = "U64" -> Call("visit_u64", b.val)
      [] OTHER -> invalid_type(b)

BufferDeserializer_deserialize_ignored_any(b) == Call("visit_unit", <<>>)

\* --------------------------------- borrowing adapter: BufferRefDeserializer
\* The same methods over a reference: owned strings and byte buffers are
\* handed over as transient slices (visit_str / visit_bytes) and nested
\* values are wrapped in borrowing adapters.

visit_buffer_seq_ref(items) == CallWith("visit_seq", "value::SeqDeserializer", items)
visit_buffer_map_ref(entries) == CallWith("visit_map", "value::MapDeserializer", entries)

BufferRefDeserializer_deserialize_integer(b) ==
    IF b.tag \in IntegerTags THEN Call(IntegerCallback(b.tag), b.val)
    ELSE invalid_type(b)

\* faulty variant: a float target takes only the two float cases
BufferRefDeserializer_deserialize_float_strict(b) ==
    CASE b.tag = "F32" -> Call("visit_f32", b.val)
      [] b.tag = "F64" -> Call("visit_f64", b.val)
      [] OTHER -> invalid_type(b)

BufferRefDeserializer_deserialize_float(b) ==
    CASE b.tag = "F32" -> Call("visit_f32", b.val)
      [] b.tag = "F64" -> Call("visit_f64", b.val)
      [] b.tag \in IntegerTags -> Call(IntegerCallback(b.tag), b.val)
      [] OTHER -> invalid_type(b)

\* faulty variant: a Newtype is replayed as if it were an optional value
BufferRefDeserializer_deserialize_any_newtype_as_some(b) ==
    CASE b.tag = "Bool" -> Call("visit_bool", b.val)
      [] b.tag \in IntegerTags -> Call(IntegerCallback(b.tag), b.val)
      [] b.tag = "F32" -> Call("visit_f32", b.val)
      [] b.tag = "F64" -> Call("visit_f64", b.val)
      [] b.tag = "Char" -> Call("visit_char", b.val)
      [] b.tag = "String" -> Call("visit_str", b.val)
      [] b.tag = "Str" -> Call("visit_borrowed_str", b.val)
      [] b.tag = "ByteBuf" -> Call("visit_bytes", b.val)
      [] b.tag = "Bytes" -> Call("visit_borrowed_bytes", b.val)
      [] b.tag = "Unit" -> Call("visit_unit", <<>>)
      [] b.tag = "None" -> Call("visit_none", <<>>)
      [] b.tag \in {"Some", "Newtype"} ->
            CallWith("visit_some", "BufferRefDeserializer", b.kids)
      [] b.tag = "Seq" -> visit_buffer_seq_ref(b.kids)
      [] b.tag = "Map" -> visit_buffer_map_ref(b.kids)

BufferRefDeserializer_deserialize_any(b) ==
    CASE b.tag = "Bool" -> Call("visit_bool", b.val)
      [] b.tag \in IntegerTags -> Call(IntegerCallback(b.tag), b.val)
      [] b.tag = "F32" -> Call("visit_f32", b.val)
      [] b.tag = "F64" -> Call("visit_f64", b.val)
      [] b.tag = "Char" -> Call("visit_char", b.val)
      [] b.tag = "String" -> Call("visit_str", b.val)
      [] b.tag = "Str" -> Call("visit_borrowed_str", b.val)
      [] b.tag = "ByteBuf" -> Call("visit_bytes", b.val)
      [] b.tag = "Bytes" -> Call("visit_borrowed_bytes", b.val)
      [] b.tag = "Unit" -> Call("visit_unit", <<>>)
      [] b.tag = "None" -> Call("visit_none", <<>>)
      [] b.tag = "Some" -> CallWith("visit_some", "BufferRefDeserializer", b.kids)
      [] b.tag = "Newtype" ->
            CallWith("visit_newtype_struct", "BufferRefDeserializer", b.kids)
      [] b.tag = "Seq" -> visit_buffer_seq_ref(b.kids)
      [] b.tag = "Map" -> visit_buffer_map_ref(b.kids)

BufferRefDeserializer_deserialize_bool(b) ==
    IF b.tag = "Bool" THEN Call("visit_bool", b.val) ELSE invalid_type(b)

\* faulty variant: a char target takes the Char case only
BufferRefDeserializer_deserialize_char_only(b) ==
    IF b.tag = "Char" THEN Call("visit_char", b.val) ELSE invalid_type(b)

BufferRefDeserializer_deserialize_char(b) ==
    CASE b.tag = "Char" -> Call("visit_char", b.val)
      [] b.tag = "String" -> Call("visit_str", b.val)
      [] b.tag = "Str" -> Call("visit_borrowed_str", b.val)
      [] OTHER -> invalid_type(b)

BufferRefDeserializer_deserialize_str(b) ==
    CASE b.tag = "String" -> Call("visit_str", b.val)
      [] b.tag = "Str" -> Call("visit_borrowed_str", b.val)
      [] b.tag = "ByteBuf" -> Call("visit_bytes", b.val)
      [] b.tag = "Bytes" -> Call("visit_borrowed_bytes", b.val)
      [] OTHER -> invalid_type(b)

BufferRefDeserializer_deserialize_bytes(b) ==
    CASE b.tag = "String" -> Call("visit_str", b.val)
      [] b.tag = "Str" -> Call("visit_borrowed_str", b.val)
      [] b.tag = "ByteBuf" -> Call("visit_bytes", b.val)
      [] b.tag = "Bytes" -> Call("visit_borrowed_bytes", b.val)
      [] b.tag = "Seq" -> visit_buffer_seq_ref(b.kids)
      [] OTHER -> invalid_type(b)

\* faulty variant: Some is not unwrapped but wrapped once more
BufferRefDeserializer_deserialize_option_rewrap(b) ==
    CASE b.tag = "None" -> Call("visit_none", <<>>)
      [] b.tag = "Unit" -> Call("visit_unit", <<>>)
      [] OTHER -> CallWith("visit_some", "BufferRefDeserializer", <<b>>)

BufferRefDeserializer_deserialize_option(b) ==
    CASE b.tag = "None" -> Call("visit_none", <<>>)
      [] b.tag = "Some" -> CallWith("visit_some", "BufferRefDeserializer", b.kids)
      [] b.tag = "Unit" -> Call("visit_unit", <<>>)
      [] OTHER -> CallWith("visit_some", "BufferRefDeserializer", <<b>>)

\* faulty variant: the empty-map arm of the owned adapter is present
BufferRefDeserializer_deserialize_unit_lenient(b) ==
    CASE b.tag = "Unit" -> Call("visit_unit", <<>>)
      [] b.tag = "Map" /\ b.kids = <<>> -> Call("visit_unit", <<>>)
      [] OTHER -> invalid_type(b)

BufferRefDeserializer_deserialize_unit(b) ==
    IF b.tag = "Unit" THEN Call("visit_unit", <<>>) ELSE invalid_type(b)

\* faulty variant: the unit-struct rule of the owned adapter
BufferRefDeserializer_deserialize_unit_struct_lenient(b) ==
    CASE b.tag = "Map" /\ b.kids = <<>> -> Call("visit_unit", <<>>)
      [] b.tag = "Seq" /\ b.kids = <<>> -> Call("visit_unit", <<>>)
      [] OTHER -> BufferRefDeserializer_deserialize_any(b)

BufferRefDeserializer_deserialize_unit_struct(b) ==
    BufferRefDeserializer_deserialize_unit(b)

\* faulty variant: a Newtype case is not unwrapped
BufferRefDeserializer_deserialize_newtype_struct_rewrap(b) ==
    CallWith("visit_newtype_struct", "BufferRefDeserializer", <<b>>)

BufferRefDeserializer_deserialize_newtype_struct(b) ==
    IF b.tag = "Newtype"
    THEN CallWith("visit_newtype_struct", "BufferRefDeserializer", b.kids)
    ELSE CallWith("visit_newtype_struct", "BufferRefDeserializer", <<b>>)

BufferRefDeserializer_deserialize_seq(b) ==
    IF b.tag = "Seq" THEN visit_buffer_seq_ref(b.kids) ELSE invalid_type(b)

BufferRefDeserializer_deserialize_map(b) ==
    IF b.tag = "Map" THEN visit_buffer_map_ref(b.kids) ELSE invalid_type(b)

BufferRefDeserializer_deserialize_struct(b) ==
    CASE b.tag = "Seq" -> visit_buffer_seq_ref(b.kids)
      [] b.tag = "Map" -> visit_buffer_map_ref(b.kids)
      [] OTHER -> invalid_type(b)

BufferRefDeserializer_deserialize_enum(b) ==
    CASE b.tag = "Map" ->
            IF Len(b.kids) = 0
            THEN Err("invalid_value", "Map", <<>>, "map with a single key")
            ELSE IF Len(b.kids) > 2
            THEN Err("invalid_value", "Map", <<>>, "map with a single key")
            ELSE CallWith("visit_enum", "EnumRefDeserializer", <<b.kids[1], b.kids[2]>>)
      [] b.tag \in StringTags -> CallWith("visit_enum", "EnumRefDeserializer", <<b>>)
      [] OTHER -> Err("invalid_type", unexpected(b).kind, unexpected(b).val, "string or map")

BufferRefDeserializer_deserialize_identifier(b) ==
    CASE b.tag = "String" -> Call("visit_str", b.val)
      [] b.tag = "Str" -> Call("visit_borrowed_str", b.val)
      [] b.tag = "ByteBuf" -> Call("visit_bytes", b.val)
      [] b.tag = "Bytes" -> Call("visit_borrowed_bytes", b.val)
      [] b.tag = "U8" -> Call("visit_u8", b.val)
      [] b.tag = "U64" -> Call("visit_u64", b.val)
      [] OTHER -> invalid_type(b)

BufferRefDeserializer_deserialize_ignored_any(b) == Call("visit_unit", <<>>)

\* ------------------------------------------- Buffer requested from an adapter
\* BufferDeserializer::__deserialize_buffer (the target "buffer", reached
\* from Buffer::deserialize): the visitor is dropped, the value is returned
BufferDeserializer_deserialize_buffer(b) == OkBuffer(b)

RECURSIVE Buffer_clone_owning(_)
\* faulty variant: the copy owns its data, borrowed cases become owned
Buffer_clone_owning(b) ==
    Buf(CASE b.tag = "Str" -> "String" [] b.tag = "Bytes" -> "ByteBuf" [] OTHER -> b.tag,
        b.val, [i \in 1..Len(b.kids) |-> Buffer_clone_owning(b.kids[i])])

RECURSIVE Buffer_clone(_)
\* #[derive(Clone)] for BufferInner: each case is rebuilt from clones of
\* its fields
Buffer_clone(b) ==
    Buf(b.tag, b.val, [i \in 1..Len(b.kids) |-> Buffer_clone(b.kids[i])])

\* BufferRefDeserializer::__deserialize_buffer: a clone is returned
BufferRefDeserializer_deserialize_buffer(b) == OkBuffer(Buffer_clone(b))

\* ------------------------------------------------------------ Buffer::as_str
\* a continuation byte within lo..hi
Continuation(bytes, i, lo, hi) ==
    /\ i <= Len(bytes)
    /\ bytes[i] >= lo /\ bytes[i] <= hi

RECURSIVE Utf8Valid(_)
\* str::from_utf8(bytes).is_ok(): well-formed UTF-8 byte sequences only
\* (no overlong forms, no surrogates, nothing above U+10FFFF)
Utf8Valid(bytes) ==
    IF bytes = <<>> THEN TRUE
    ELSE LET b == bytes[1]
             n == CASE b < 128 -> 1
                    [] b >= 194 /\ b <= 223 -> 2
                    [] b >= 224 /\ b <= 239 -> 3
                    [] b >= 240 /\ b <= 244 -> 4
                    [] OTHER -> 0
         IN /\ n # 0
            /\ n >= 2 => Continuation(bytes, 2,
                              CASE b = 224 -> 160 [] b = 240 -> 144 [] OTHER -> 128,
                              CASE b = 237 -> 159 [] b = 244 -> 143 [] OTHER -> 191)
            /\ n >= 3 => Continuation(bytes, 3, 128, 191)
            /\ n >= 4 => Continuation(bytes, 4, 128, 191)
            /\ Utf8Valid(SubSeq(bytes, n + 1, Len(bytes)))

\* Option<&str> returned by as_str
SomeStr(text) ==
    [ok |-> TRUE, cb |-> "Some", val |-> text, de |-> "str", kids |-> <<>>,
     unexp |-> "", exp |-> ""]
NoStr ==
    [ok |-> TRUE, cb |-> "None", val |-> <<>>, de |-> "str", kids |-> <<>>,
     unexp |-> "", exp |-> ""]

\* faulty variant: byte cases are handed out as text without validation
Buffer_as_str_unchecked(b) ==
    CASE b.tag \in {"Str", "String"} -> SomeStr(b.val)
      [] b.tag \in {"Bytes", "ByteBuf"} -> SomeStr(b.val)
      [] OTHER -> NoStr

\* Buffer::as_str
Buffer_as_str(b) ==
    CASE b.tag \in {"Str", "String"} -> SomeStr(b.val)
      [] b.tag \in {"Bytes", "ByteBuf"} ->
            IF Utf8Valid(b.val) THEN SomeStr(b.val) ELSE NoStr
      [] OTHER -> NoStr

\* size_hint::from_bounds over a cursor with exactly n items left: Some(n)
from_bounds(n) == Call("size_hint", <<n>>)

\* Ok(()) returned by a unit-variant request
OkUnit == Call("Ok", <<>>)

\* <() as Deserialize>::deserialize: the unit visitor turns visit_unit into
\* Ok(()) and keeps the adapter's error
UnitVisitor(c) ==
    IF ~c.ok THEN c
    ELSE IF c.cb = "visit_unit" THEN OkUnit
    ELSE Err("invalid_type", c.cb, <<>>, "unit")

\* ---------------------------------------------- enum helpers, owned adapter
\* EnumDeserializer::variant_seed over the fields <<variant>> or
\* <<variant, value>>: the seed decodes the variant through an owned
\* adapter, the VariantDeserializer takes the value
EnumDeserializer_variant_seed(fields) ==
    [reply |-> CallWith("variant_seed", "BufferDeserializer", <<fields[1]>>),
     value |-> Tail(fields)]

\* SeqDeserializer::deserialize_any up to the visitor call
SeqDeserializer_deserialize_any(items) ==
    IF Len(items) = 0 THEN Call("visit_unit", <<>>)
    ELSE CallWith("visit_seq", "SeqDeserializer", items)

\* SeqDeserializer::deserialize_any after visit_seq has returned ret
SeqDeserializer_deserialize_any_finish(len, remaining, ret) ==
    IF ~ret.ok THEN ret
    ELSE IF remaining = 0 THEN ret
    ELSE Err("invalid_length", "", <<len>>, "fewer elements in array")

\* faulty variant: the element is handed out but the cursor does not move
SeqDeserializer_next_element_seed_repeating(self) ==
    IF self.iter # <<>>
    THEN [iter |-> self.iter,
          reply |-> CallWith("element", "BufferDeserializer", <<Head(self.iter)>>)]
    ELSE [iter |-> self.iter, reply |-> Call("None", <<>>)]

\* SeqDeserializer::next_element_seed
SeqDeserializer_next_element_seed(self) ==
    IF self.iter # <<>>
    THEN [iter |-> Tail(self.iter),
          reply |-> CallWith("element", "BufferDeserializer", <<Head(self.iter)>>)]
    ELSE [iter |-> self.iter, reply |-> Call("None", <<>>)]

\* SeqDeserializer::size_hint
SeqDeserializer_size_hint(self) == from_bounds(Len(self.iter))

\* MapDeserializer::size_hint (the cursor holds two values per entry)
MapDeserializer_size_hint(self) == from_bounds(Len(self.iter) \div 2)

\* MapDeserializer::new
MapDeserializer_new(entries) == [iter |-> entries, value |-> <<>>]

\* MapDeserializer::deserialize_any
MapDeserializer_deserialize_any(entries) ==
    CallWith("visit_map", "MapDeserializer", entries)

\* MapDeserializer::next_key_seed
MapDeserializer_next_key_seed(self) ==
    IF self.iter # <<>>
    THEN [iter |-> Tail(Tail(self.iter)),
          value |-> <<self.iter[2]>>,
          reply |-> CallWith("key", "BufferDeserializer", <<self.iter[1]>>)]
    ELSE [iter |-> self.iter, value |-> self.value, reply |-> Call("None", <<>>)]

\* faulty variant: the pending value is read but not taken out
MapDeserializer_next_value_seed_keeping(self) ==
    IF self.value # <<>>
    THEN [iter |-> self.iter,
          value |-> self.value,
          reply |-> CallWith("value", "BufferDeserializer", self.value)]
    ELSE [iter |-> self.iter, value |-> self.value,
          reply |-> Err("custom", "", <<>>, "value is missing")]

\* MapDeserializer::next_value_seed
MapDeserializer_next_value_seed(self) ==
    IF self.value # <<>>
    THEN [iter |-> self.iter,
          value |-> <<>>,
          reply |-> CallWith("value", "BufferDeserializer", self.value)]
    ELSE [iter |-> self.iter, value |-> self.value,
          reply |-> Err("custom", "", <<>>, "value is missing")]

\* VariantDeserializer::unit_variant
VariantDeserializer_unit_variant(value) ==
    IF value = <<>> THEN OkUnit
    ELSE UnitVisitor(BufferDeserializer_deserialize_unit(value[1]))

\* VariantDeserializer::newtype_variant_seed: the seed is handed an owned
\* adapter over the payload
VariantDeserializer_newtype_variant_seed(value) ==
    IF value = <<>> THEN Err("invalid_type", "UnitVariant", <<>>, "newtype variant")
    ELSE CallWith("newtype_variant_seed", "BufferDeserializer", value)

\* VariantDeserializer::tuple_variant up to the visitor call
VariantDeserializer_tuple_variant(value) ==
    CASE value = <<>> -> Err("invalid_type", "UnitVariant", <<>>, "tuple variant")
      [] value # <<>> /\ value[1].tag = "Seq" ->
            SeqDeserializer_deserialize_any(value[1].kids)
      [] OTHER -> Err("invalid_type", unexpected(value[1]).kind,
                      unexpected(value[1]).val, "tuple variant")

\* VariantDeserializer::struct_variant up to the visitor call
VariantDeserializer_struct_variant(value) ==
    CASE value = <<>> -> Err("invalid_type", "UnitVariant", <<>>, "struct variant")
      [] value # <<>> /\ value[1].tag = "Map" ->
            MapDeserializer_deserialize_any(value[1].kids)
      [] value # <<>> /\ value[1].tag = "Seq" ->
            SeqDeserializer_deserialize_any(value[1].kids)
      [] OTHER -> Err("invalid_type", unexpected(value[1]).kind,
                      unexpected(value[1]).val, "struct variant")

\* ------------------------------------------ enum helpers, borrowing adapter
\* EnumRefDeserializer::variant_seed
EnumRefDeserializer_variant_seed(fields) ==
    [reply |-> CallWith("variant_seed", "BufferRefDeserializer", <<fields[1]>>),
     value |-> Tail(fields)]

\* SeqRefDeserializer::deserialize_any up to the visitor call
SeqRefDeserializer_deserialize_any(items) ==
    IF Len(items) = 0 THEN Call("visit_unit", <<>>)
    ELSE CallWith("visit_seq", "SeqRefDeserializer", items)

\* faulty variant: the error reports the number of elements left
SeqRefDeserializer_deserialize_any_finish_reporting_rest(len, remaining, ret) ==
    IF ~ret.ok THEN ret
    ELSE IF remaining = 0 THEN ret
    ELSE Err("invalid_length", "", <<remaining>>, "fewer elements in array")

\* SeqRefDeserializer::deserialize_any after visit_seq has returned ret
SeqRefDeserializer_deserialize_any_finish(len, remaining, ret) ==
    IF ~ret.ok THEN ret
    ELSE IF remaining = 0 THEN ret
    ELSE Err("invalid_length", "", <<len>>, "fewer elements in array")

\* SeqRefDeserializer::next_element_seed
SeqRefDeserializer_next_element_seed(self) ==
    IF self.iter # <<>>
    THEN [iter |-> Tail(self.iter),
          reply |-> CallWith("element", "BufferRefDeserializer", <<Head(self.iter)>>)]
    ELSE [iter |-> self.iter, reply |-> Call("None", <<>>)]

\* SeqRefDeserializer::size_hint
SeqRefDeserializer_size_hint(self) == from_bounds(Len(self.iter))

\* MapRefDeserializer::size_hint
MapRefDeserializer_size_hint(self) == from_bounds(Len(self.iter) \div 2)

\* MapRefDeserializer::new
MapRefDeserializer_new(entries) == [iter |-> entries, value |-> <<>>]

\* MapRefDeserializer::deserialize_any
MapRefDeserializer_deserialize_any(entries) ==
    CallWith("visit_map", "MapRefDeserializer", entries)

\* faulty variant: a key request while a value is pending is refused
MapRefDeserializer_next_key_seed_guarded(self) ==
    IF self.value # <<>>
    THEN [iter |-> self.iter, value |-> self.value,
          reply |-> Err("custom", "", <<>>, "value is missing")]
    ELSE IF self.iter # <<>>
    THEN [iter |-> Tail(Tail(self.iter)),
          value |-> <<self.iter[2]>>,
          reply |-> CallWith("key", "BufferRefDeserializer", <<self.iter[1]>>)]
    ELSE [iter |-> self.iter, value |-> self.value, reply |-> Call("None", <<>>)]

\* MapRefDeserializer::next_key_seed
MapRefDeserializer_next_key_seed(self) ==
    IF self.iter # <<>>
    THEN [iter |-> Tail(Tail(self.iter)),
          value |-> <<self.iter[2]>>,
          reply |-> CallWith("key", "BufferRefDeserializer", <<self.iter[1]>>)]
    ELSE [iter |-> self.iter, value |-> self.value, reply |-> Call("None", <<>>)]

\* MapRefDeserializer::next_value_seed
MapRefDeserializer_next_value_seed(self) ==
    IF self.value # <<>>
    THEN [iter |-> self.iter,
          value |-> <<>>,
          reply |-> CallWith("value", "BufferRefDeserializer", self.value)]
    ELSE [iter |-> self.iter, value |-> self.value,
          reply |-> Err("custom", "", <<>>, "value is missing")]

\* VariantRefDeserializer::unit_variant
VariantRefDeserializer_unit_variant(value) ==
    IF value = <<>> THEN OkUnit
    ELSE UnitVisitor(BufferRefDeserializer_deserialize_unit(value[1]))

\* faulty variant: a missing payload is decoded as if it were a unit
VariantRefDeserializer_newtype_variant_seed_defaulting(value) ==
    IF value = <<>>
    THEN CallWith("newtype_variant_seed", "BufferRefDeserializer", <<Buf("Unit", <<>>, <<>>)>>)
    ELSE CallWith("newtype_variant_seed", "BufferRefDeserializer", value)

\* VariantRefDeserializer::newtype_variant_seed
VariantRefDeserializer_newtype_variant_seed(value) ==
    IF value = <<>> THEN Err("invalid_type", "UnitVariant", <<>>, "newtype variant")
    ELSE CallWith("newtype_variant_seed", "BufferRefDeserializer", value)

\* VariantRefDeserializer::tuple_variant up to the visitor call
VariantRefDeserializer_tuple_variant(value) ==
    CASE value = <<>> -> Err("invalid_type", "UnitVariant", <<>>, "tuple variant")
      [] value # <<>> /\ value[1].tag = "Seq" ->
            SeqRefDeserializer_deserialize_any(value[1].kids)
      [] OTHER -> Err("invalid_type", unexpected(value[1]).kind,
                      unexpected(value[1]).val, "tuple variant")

\* VariantRefDeserializer::struct_variant up to the visitor call
VariantRefDeserializer_struct_variant(value) ==
    CASE value = <<>> -> Err("invalid_type", "UnitVariant", <<>>, "struct variant")
      [] value # <<>> /\ value[1].tag = "Map" ->
            MapRefDeserializer_deserialize_any(value[1].kids)
      [] value # <<>> /\ value[1].tag = "Seq" ->
            SeqRefDeserializer_deserialize_any(value[1].kids)
      [] OTHER -> Err("invalid_type", unexpected(value[1]).kind,
                      unexpected(value[1]).val, "struct variant")

\* ------------------------------------------------------------- the targets
IntegerTargets == {"i8", "i16", "i32", "i64", "i128", "u8", "u16", "u32", "u64", "u128"}
FloatTargets == {"f32", "f64"}
Targets ==
    {"any", "bool", "char", "str", "string", "bytes", "byte_buf", "option",
     "unit", "unit_struct", "newtype_struct", "seq", "tuple", "tuple_struct",
     "map", "struct", "enum", "identifier", "ignored_any", "buffer"}
    \cup IntegerTargets \cup FloatTargets

\* impl Deserializer for BufferDeserializer: the method behind each target
BufferDeserializer_deserialize(t, b) ==
    CASE t = "any" -> BufferDeserializer_deserialize_any(b)
      [] t = "bool" -> BufferDeserializer_deserialize_bool(b)
      [] t \in IntegerTargets -> BufferDeserializer_deserialize_integer(b)
      [] t \in FloatTargets -> BufferDeserializer_deserialize_float(b)
      [] t = "char" -> BufferDeserializer_deserialize_char(b)
      [] t \in {"str", "string"} -> BufferDeserializer_deserialize_string(b)
      [] t \in {"bytes", "byte_buf"} -> BufferDeserializer_deserialize_byte_buf(b)
      [] t = "option" -> BufferDeserializer_deserialize_option(b)
      [] t = "unit" -> BufferDeserializer_deserialize_unit(b)
      [] t = "unit_struct" -> BufferDeserializer_deserialize_unit_struct(b)
      [] t = "newtype_struct" -> BufferDeserializer_deserialize_newtype_struct(b)
      [] t \in {"seq", "tuple", "tuple_struct"} -> BufferDeserializer_deserialize_seq(b)
      [] t = "map" -> BufferDeserializer_deserialize_map(b)
      [] t = "struct" -> BufferDeserializer_deserialize_struct(b)
      [] t = "enum" -> BufferDeserializer_deserialize_enum(b)
      [] t = "identifier" -> BufferDeserializer_deserialize_identifier(b)
      [] t = "ignored_any" -> BufferDeserializer_deserialize_ignored_any(b)
      [] t = "buffer" -> BufferDeserializer_deserialize_buffer(b)

\* impl Deserializer for BufferRefDeserializer: the method behind each target
BufferRefDeserializer_deserialize(t, b) ==
    CASE t = "any" -> BufferRefDeserializer_deserialize_any(b)
      [] t = "bool" -> BufferRefDeserializer_deserialize_bool(b)
      [] t \in IntegerTargets -> BufferRefDeserializer_deserialize_integer(b)
      [] t \in FloatTargets -> BufferRefDeserializer_deserialize_float(b)
      [] t = "char" -> BufferRefDeserializer_deserialize_char(b)
      [] t \in {"str", "string"} -> BufferRefDeserializer_deserialize_str(b)
      [] t \in {"bytes", "byte_buf"} -> BufferRefDeserializer_deserialize_bytes(b)
      [] t = "option" -> BufferRefDeserializer_deserialize_option(b)
      [] t = "unit" -> BufferRefDeserializer_deserialize_unit(b)
      [] t = "unit_struct" -> BufferRefDeserializer_deserialize_unit_struct(b)
      [] t = "newtype_struct" -> BufferRefDeserializer_deserialize_newtype_struct(b)
      [] t \in {"seq", "tuple", "tuple_struct"} -> BufferRefDeserializer_deserialize_seq(b)
      [] t = "map" -> BufferRefDeserializer_deserialize_map(b)
      [] t = "struct" -> BufferRefDeserializer_deserialize_struct(b)
      [] t = "enum" -> BufferRefDeserializer_deserialize_enum(b)
      [] t = "identifier" -> BufferRefDeserializer_deserialize_identifier(b)
      [] t = "ignored_any" -> BufferRefDeserializer_deserialize_ignored_any(b)
      [] t = "buffer" -> BufferRefDeserializer_deserialize_buffer(b)

\* ------------------------------------------------------- adapter creation
\* BufferDeserializer::new / IntoDeserializer for Buffer: the value is moved
\* into the adapter, nothing is left with the caller.
BufferDeserializer_new(b) == [buffer |-> b, left |-> Moved]

\* faulty variant: the borrowing adapter takes the value away from the caller
BufferRefDeserializer_new_moving(b) == [buffer |-> b, left |-> Moved]

\* BufferRefDeserializer::new / IntoDeserializer for &Buffer: the adapter
\* holds a shared reference, the caller keeps the value.
BufferRefDeserializer_new(b) == [buffer |-> b, left |-> b]

\* --------------------------------------------- sequence / map replay access
\* a consumer that pulls until the access reports exhaustion
\* (while let Some(e) = visitor.next_element()?), as BufferVisitor::visit_seq
DrainAll == -1
\* a consumer of arity k >= 0 pulls exactly k items
Arities == {DrainAll} \cup (0..(MaxLen + 1))

\* de::value::SeqDeserializer::end / MapDeserializer::end: Ok when the
\* cursor is spent, otherwise invalid_length(count + remaining)
value_end(taken, remaining, exp) ==
    IF remaining = 0 THEN Call("end", <<>>)
    ELSE Err("invalid_length", "", <<taken + remaining>>, exp)

\* the tuple visitor of arity k told that the sequence is exhausted after
\* taken < k items: invalid_length(taken, &self)
tuple_visitor_exhausted(taken) == Err("invalid_length", "", <<taken>>, "visitor")

\* faulty variant: the result of seq_visitor.end() is dropped
visit_buffer_seq_finish_unchecked(value, end) == value

\* visit_buffer_seq after the visitor has returned:
\*     let value = visitor.visit_seq(&mut seq_visitor)?;
\*     seq_visitor.end()?;
\*     Ok(value)
visit_buffer_seq_finish(value, end) ==
    IF ~value.ok THEN value
    ELSE IF ~end.ok THEN end
    ELSE value

\* faulty variant: the result of map_visitor.end() is dropped
visit_buffer_map_finish_unchecked(value, end) == value

\* visit_buffer_map after the visitor has returned
visit_buffer_map_finish(value, end) ==
    IF ~value.ok THEN value
    ELSE IF ~end.ok THEN end
    ELSE value

\* visit_buffer_seq_ref after the visitor has returned
visit_buffer_seq_ref_finish(value, end) ==
    IF ~value.ok THEN value
    ELSE IF ~end.ok THEN end
    ELSE value

\* visit_buffer_map_ref after the visitor has returned
visit_buffer_map_ref_finish(value, end) ==
    IF ~value.ok THEN value
    ELSE IF ~end.ok THEN end
    ELSE value

\* the finishing step of the adapter that started the replay
SeqFinish(ad, value, end) ==
    IF ad = "owned" THEN visit_buffer_seq_finish(value, end)
    ELSE visit_buffer_seq_ref_finish(value, end)

MapFinish(ad, value, end) ==
    IF ad = "owned" THEN visit_buffer_map_finish(value, end)
    ELSE visit_buffer_map_ref_finish(value, end)

\* ----------------------------------------------------------------- state
VARIABLES
    pc,        \* "start", "build_failed", "idle", "seq", "map" (replay by
               \* an adapter), "enum", "variant", "vseq", "vmap" (replay
               \* of a variant by the enum helpers)
    source,    \* the decoder the value is buffered from
    buffer,    \* the caller's Buffer (NoBuffer before the build, Moved after
               \* an owned adapter took it)
    adapter,   \* adapter of the current / last attempt: "owned", "ref", ""
    target,    \* deserialize_<target> of the current / last attempt
    wrapped,   \* the adapter's field `buffer`: the value it replays
    called,    \* the visitor callback made (or the error returned instead)
    iter,      \* cursor of the sequence / map access: items not yet returned
    count,     \* items the access has returned
    arity,     \* the consumer driving the access
    sawNone,   \* the access has reported exhaustion to the consumer
    ret,       \* what the visitor returned from visit_seq / visit_map
    result,    \* outcome of the last finished attempt
    attempts,  \* attempts started over this buffer
    failed,    \* attempts that ended in an error
    variant_value, \* VariantDeserializer.value: <<>> for None, <<v>> for Some(v)
    map_value,     \* MapDeserializer.value: <<>> for None, <<v>> for Some(v)
    value_taken,   \* the value of the key returned last has been handed out
    skipped,       \* values replaced in MapDeserializer.value before being taken
    reply          \* what the enum helper answered to the last request

vars == <<pc, source, buffer, adapter, target, wrapped, called, iter, count,
          arity, sawNone, ret, result, attempts, failed,
          variant_value, map_value, value_taken, skipped, reply>>

access == <<iter, count, arity, sawNone, ret>>
helper == <<variant_value, map_value, value_taken, skipped, reply>>

\* the state before Buffer::deserialize(source), for the decoders in S
InitFrom(S) ==
    /\ pc = "start"
    /\ source \in S
    /\ buffer = NoBuffer
    /\ adapter = ""
    /\ target = ""
    /\ wrapped = NoBuffer
    /\ called = NoCall
    /\ iter = <<>>
    /\ count = 0
    /\ arity = DrainAll
    /\ sawNone = FALSE
    /\ ret = NoCall
    /\ result = NoCall
    /\ attempts = 0
    /\ failed = 0
    /\ variant_value = <<>>
    /\ map_value = <<>>
    /\ value_taken = FALSE
    /\ skipped = 0
    /\ reply = NoCall

Init == InitFrom(Sources)

\* let buffer = Buffer::deserialize(source)
Build ==
    /\ pc = "start"
    /\ LET b == Buffer_deserialize(source)
       IN IF Failed(b)
          THEN /\ pc' = "build_failed"
               /\ result' = build_error(b)
               /\ UNCHANGED buffer
          ELSE /\ pc' = "idle"
               /\ buffer' = b
               /\ UNCHANGED result
    /\ UNCHANGED <<source, adapter, target, wrapped, called, access, attempts, failed>>
    /\ UNCHANGED helper

\* The visitor is called with c (or the adapter returned the error c).  A
\* visit_seq / visit_map call starts a replay driven by a consumer of some
\* arity; a visit_enum call leaves the enum access with the visitor; any
\* other call returns at once and the recording visitor returns what it
\* was given.
Dispatch(c) ==
    /\ called' = c
    /\ attempts' = attempts + 1
    /\ sawNone' = FALSE
    /\ ret' = NoCall
    /\ count' = 0
    /\ IF c.ok /\ c.cb \in {"visit_seq", "visit_map"}
       THEN /\ pc' = IF c.cb = "visit_seq" THEN "seq" ELSE "map"
            /\ iter' = c.kids
            /\ arity' \in Arities
            /\ result' = NoCall
            /\ UNCHANGED failed
       ELSE /\ pc' = IF c.ok /\ c.cb = "visit_enum" THEN "enum" ELSE "idle"
            /\ iter' = <<>>
            /\ arity' = DrainAll
            /\ result' = IF c.ok /\ c.cb = "visit_enum" THEN NoCall ELSE c
            /\ failed' = IF c.ok THEN failed ELSE failed + 1

\* T::deserialize(buffer.into_deserializer()) through deserialize_<t>
OwnedDeserialize(t) ==
    /\ pc = "idle"
    /\ buffer \notin {NoBuffer, Moved}
    /\ attempts < MaxAttempts
    /\ LET de == BufferDeserializer_new(buffer)
       IN /\ wrapped' = de.buffer
          /\ buffer' = de.left
          /\ Dispatch(BufferDeserializer_deserialize(t, de.buffer))
    /\ adapter' = "owned"
    /\ target' = t
    /\ UNCHANGED source
    /\ UNCHANGED helper

\* T::deserialize((&buffer).into_deserializer()) through deserialize_<t>
RefDeserialize(t) ==
    /\ pc = "idle"
    /\ buffer \notin {NoBuffer, Moved}
    /\ attempts < MaxAttempts
    /\ LET de == BufferRefDeserializer_new(buffer)
       IN /\ wrapped' = de.buffer
          /\ buffer' = de.left
          /\ Dispatch(BufferRefDeserializer_deserialize(t, de.buffer))
    /\ adapter' = "ref"
    /\ target' = t
    /\ UNCHANGED source
    /\ UNCHANGED helper

\* the attempt ends with outcome r
Finish(r) ==
    /\ pc' = "idle"
    /\ result' = r
    /\ failed' = IF r.ok THEN failed ELSE failed + 1

\* the enum visitor returns without asking the enum access for anything
EnumReturn ==
    /\ pc = "enum"
    /\ Finish(called)
    /\ UNCHANGED <<source, buffer, adapter, target, wrapped, called, access, attempts>>
    /\ UNCHANGED helper

\* the consumer asks for the next element and gets one
SeqNextElement ==
    /\ pc = "seq"
    /\ arity = DrainAll \/ count < arity
    /\ iter # <<>>
    /\ iter' = Tail(iter)
    /\ count' = count + 1
    /\ UNCHANGED <<pc, source, buffer, adapter, target, wrapped, called, arity,
                   sawNone, ret, result, attempts, failed>>
    /\ UNCHANGED helper

\* the consumer asks for the next element and is told the sequence is
\* exhausted: a draining consumer returns its value, a tuple consumer fails
SeqExhausted ==
    /\ pc = "seq"
    /\ arity = DrainAll \/ count < arity
    /\ iter = <<>>
    /\ sawNone' = TRUE
    /\ LET value == IF arity = DrainAll THEN called ELSE tuple_visitor_exhausted(count)
       IN /\ ret' = value
          /\ Finish(SeqFinish(adapter, value,
                        value_end(count, Len(iter), "ExpectedInSeq")))
    /\ UNCHANGED <<source, buffer, adapter, target, wrapped, called, iter, count,
                   arity, attempts>>
    /\ UNCHANGED helper

\* the consumer has taken its k elements and returns
SeqReturn ==
    /\ pc = "seq"
    /\ arity # DrainAll
    /\ count = arity
    /\ ret' = called
    /\ Finish(SeqFinish(adapter, called,
                  value_end(count, Len(iter), "ExpectedInSeq")))
    /\ UNCHANGED <<source, buffer, adapter, target, wrapped, called, iter, count,
                   arity, sawNone, attempts>>
    /\ UNCHANGED helper

\* the consumer asks for the next entry (key, then value) and gets one
MapNextEntry ==
    /\ pc = "map"
    /\ arity = DrainAll \/ count < arity
    /\ iter # <<>>
    /\ iter' = Tail(Tail(iter))
    /\ count' = count + 1
    /\ UNCHANGED <<pc, source, buffer, adapter, target, wrapped, called, arity,
                   sawNone, ret, result, attempts, failed>>
    /\ UNCHANGED helper

\* the consumer returns: it has pulled its k entries, or was told that the
\* map is exhausted
MapReturn ==
    /\ pc = "map"
    /\ \/ arity # DrainAll /\ count = arity /\ UNCHANGED sawNone
       \/ (arity = DrainAll \/ count < arity) /\ iter = <<>> /\ sawNone' = TRUE
    /\ ret' = called
    /\ Finish(MapFinish(adapter, called,
                  value_end(count, Len(iter) \div 2, "ExpectedInMap")))
    /\ UNCHANGED <<source, buffer, adapter, target, wrapped, called, iter, count,
                   arity, attempts>>
    /\ UNCHANGED helper

\* buffer.as_str() on the caller's value, between attempts
AsStr ==
    /\ pc = "idle"
    /\ buffer \notin {NoBuffer, Moved}
    /\ result' = Buffer_as_str(buffer)
    /\ target' = "as_str"
    /\ adapter' = ""
    /\ UNCHANGED <<pc, source, buffer, wrapped, called, access, attempts, failed>>
    /\ UNCHANGED helper

Next ==
    \/ Build
    \/ \E t \in Targets : OwnedDeserialize(t)
    \/ \E t \in Targets : RefDeserialize(t)
    \/ SeqNextElement
    \/ SeqExhausted
    \/ SeqReturn
    \/ MapNextEntry
    \/ MapReturn
    \/ EnumReturn
    \/ AsStr

Spec == Init /\ [][Next]_vars

\* ------------------------------------------- replay of a variant's payload
\* the enum visitor asks the enum access for the variant
VariantSeed ==
    /\ pc = "enum"
    /\ LET r == IF adapter = "owned" THEN EnumDeserializer_variant_seed(called.kids)
                ELSE EnumRefDeserializer_variant_seed(called.kids)
       IN /\ reply' = r.reply
          /\ variant_value' = r.value
    /\ pc' = "variant"
    /\ UNCHANGED <<source, buffer, adapter, target, wrapped, called, access, result,
                   attempts, failed, map_value, value_taken, skipped>>

\* A request to the variant access ends with c: a visit_map / visit_seq
\* call leaves a fresh map / sequence helper with the visitor, anything
\* else (a value handed to a seed, visit_unit, an error) ends the attempt.
VariantCall(c) ==
    /\ reply' = c
    /\ IF c.ok /\ c.cb = "visit_map"
       THEN /\ pc' = "vmap"
            /\ LET new == IF adapter = "owned" THEN MapDeserializer_new(c.kids)
                          ELSE MapRefDeserializer_new(c.kids)
               IN iter' = new.iter /\ map_value' = new.value
            /\ UNCHANGED <<result, failed>>
       ELSE IF c.ok /\ c.cb = "visit_seq"
       THEN /\ pc' = "vseq"
            /\ iter' = c.kids
            /\ UNCHANGED <<map_value, result, failed>>
       ELSE /\ Finish(c)
            /\ UNCHANGED <<iter, map_value>>
    /\ variant_value' = <<>>
    /\ count' = 0
    /\ value_taken' = FALSE
    /\ skipped' = 0
    /\ UNCHANGED <<source, buffer, adapter, target, wrapped, called, arity, sawNone,
                   ret, attempts>>

\* the enum visitor asks the variant access for a unit variant
UnitVariant ==
    /\ pc = "variant"
    /\ VariantCall(IF adapter = "owned" THEN VariantDeserializer_unit_variant(variant_value)
                   ELSE VariantRefDeserializer_unit_variant(variant_value))

\* the enum visitor asks the variant access for a newtype variant
NewtypeVariantSeed ==
    /\ pc = "variant"
    /\ VariantCall(IF adapter = "owned"
                   THEN VariantDeserializer_newtype_variant_seed(variant_value)
                   ELSE VariantRefDeserializer_newtype_variant_seed(variant_value))

\* the enum visitor asks the variant access for a tuple variant
TupleVariant ==
    /\ pc = "variant"
    /\ VariantCall(IF adapter = "owned" THEN VariantDeserializer_tuple_variant(variant_value)
                   ELSE VariantRefDeserializer_tuple_variant(variant_value))

\* the enum visitor asks the variant access for a struct variant: the
\* payload is handed to the visitor as a map or a sequence, or refused
StructVariant ==
    /\ pc = "variant"
    /\ VariantCall(IF adapter = "owned" THEN VariantDeserializer_struct_variant(variant_value)
                   ELSE VariantRefDeserializer_struct_variant(variant_value))

\* the visitor asks the map helper for the next key
MapNextKeySeed ==
    /\ pc = "vmap"
    /\ LET self == [iter |-> iter, value |-> map_value]
           r == IF adapter = "owned" THEN MapDeserializer_next_key_seed(self)
                ELSE MapRefDeserializer_next_key_seed(self)
       IN /\ iter' = r.iter
          /\ map_value' = r.value
          /\ reply' = r.reply
          /\ count' = IF r.reply.cb = "key" THEN count + 1 ELSE count
          /\ value_taken' = IF r.reply.cb = "key" THEN FALSE ELSE value_taken
          /\ skipped' = IF r.reply.cb = "key" /\ map_value # <<>>
                        THEN skipped + 1 ELSE skipped
    /\ UNCHANGED <<pc, source, buffer, adapter, target, wrapped, called, arity,
                   sawNone, ret, result, attempts, failed, variant_value>>

\* the visitor asks the map helper for the next value
MapNextValueSeed ==
    /\ pc = "vmap"
    /\ LET self == [iter |-> iter, value |-> map_value]
           r == IF adapter = "owned" THEN MapDeserializer_next_value_seed(self)
                ELSE MapRefDeserializer_next_value_seed(self)
       IN /\ iter' = r.iter
          /\ map_value' = r.value
          /\ reply' = r.reply
          /\ value_taken' = IF r.reply.ok THEN TRUE ELSE value_taken
    /\ UNCHANGED <<pc, source, buffer, adapter, target, wrapped, called, count, arity,
                   sawNone, ret, result, attempts, failed, variant_value, skipped>>

\* visit_map returns: the error of the last request if it failed, else the
\* visitor's value; MapDeserializer::deserialize_any returns it as it is
VisitMapReturn ==
    /\ pc = "vmap"
    /\ LET value == IF reply.ok
                    THEN IF adapter = "owned"
                         THEN MapDeserializer_deserialize_any(called.kids[2].kids)
                         ELSE MapRefDeserializer_deserialize_any(called.kids[2].kids)
                    ELSE reply
       IN /\ ret' = value
          /\ Finish(value)
    /\ UNCHANGED <<source, buffer, adapter, target, wrapped, called, iter, count,
                   arity, sawNone, attempts>>
    /\ UNCHANGED helper

\* the visitor asks the sequence helper for the next element
SeqNextElementSeed ==
    /\ pc = "vseq"
    /\ LET self == [iter |-> iter]
           r == IF adapter = "owned" THEN SeqDeserializer_next_element_seed(self)
                ELSE SeqRefDeserializer_next_element_seed(self)
       IN /\ iter' = r.iter
          /\ reply' = r.reply
          /\ count' = IF r.reply.cb = "element" THEN count + 1 ELSE count
    /\ UNCHANGED <<pc, source, buffer, adapter, target, wrapped, called, arity,
                   sawNone, ret, result, attempts, failed, variant_value, map_value,
                   value_taken, skipped>>

\* visit_seq returns its value and the sequence helper checks that nothing
\* is left
VisitSeqReturn ==
    /\ pc = "vseq"
    /\ LET len == Len(called.kids[2].kids)
           value == IF adapter = "owned"
                    THEN SeqDeserializer_deserialize_any(called.kids[2].kids)
                    ELSE SeqRefDeserializer_deserialize_any(called.kids[2].kids)
       IN /\ ret' = value
          /\ Finish(IF adapter = "owned"
                    THEN SeqDeserializer_deserialize_any_finish(len, Len(iter), value)
                    ELSE SeqRefDeserializer_deserialize_any_finish(len, Len(iter), value))
    /\ UNCHANGED <<source, buffer, adapter, target, wrapped, called, iter, count,
                   arity, sawNone, attempts>>
    /\ UNCHANGED helper

\* the visitor asks the sequence helper for its size hint
SeqSizeHint ==
    /\ pc = "vseq"
    /\ reply' = IF adapter = "owned" THEN SeqDeserializer_size_hint([iter |-> iter])
                ELSE SeqRefDeserializer_size_hint([iter |-> iter])
    /\ UNCHANGED <<pc, source, buffer, adapter, target, wrapped, called, access,
                   result, attempts, failed, variant_value, map_value, value_taken,
                   skipped>>

\* the visitor asks the map helper for its size hint
MapSizeHint ==
    /\ pc = "vmap"
    /\ LET self == [iter |-> iter, value |-> map_value]
       IN reply' = IF adapter = "owned" THEN MapDeserializer_size_hint(self)
                   ELSE MapRefDeserializer_size_hint(self)
    /\ UNCHANGED <<pc, source, buffer, adapter, target, wrapped, called, access,
                   result, attempts, failed, variant_value, map_value, value_taken,
                   skipped>>

\* replaying buffered variants into an enum target
VariantInit == InitFrom(VariantSources)
VariantNext ==
    \/ Build
    \/ OwnedDeserialize("enum")
    \/ RefDeserialize("enum")
    \/ EnumReturn
    \/ VariantSeed
    \/ UnitVariant
    \/ NewtypeVariantSeed
    \/ TupleVariant
    \/ StructVariant
    \/ MapNextKeySeed
    \/ MapNextValueSeed
    \/ VisitMapReturn
    \/ SeqNextElementSeed
    \/ VisitSeqReturn
    \/ SeqSizeHint
    \/ MapSizeHint
VariantSpec == VariantInit /\ [][VariantNext]_vars

\* a tagged value decoded as an enum, or replayed as a whole through a map
\* or struct target
MapTargets == {"map", "struct"}
TaggedInit == InitFrom(VariantSources)
TaggedNext ==
    \/ Build
    \/ \E t \in MapTargets \cup {"enum"} : OwnedDeserialize(t)
    \/ \E t \in MapTargets \cup {"enum"} : RefDeserialize(t)
    \/ MapNextEntry
    \/ MapReturn
    \/ EnumReturn
    \/ VariantSeed
    \/ UnitVariant
    \/ NewtypeVariantSeed
    \/ TupleVariant
    \/ StructVariant
    \/ MapNextKeySeed
    \/ MapNextValueSeed
    \/ VisitMapReturn
    \/ SeqNextElementSeed
    \/ VisitSeqReturn
    \/ SeqSizeHint
    \/ MapSizeHint
TaggedSpec == TaggedInit /\ [][TaggedNext]_vars

\* building from sequence and map accesses whose size hint may be wrong
BuildInit == InitFrom(HintedSources)
BuildNext == Build
BuildSpec == BuildInit /\ [][BuildNext]_vars

\* ------------------------------------- the builder driven by an adapter
\* Buffer::deserialize over an adapter of type de wrapping b: the adapter's
\* __deserialize_buffer returns the value without calling the visitor
Buffer_deserialize_adapter(de, b) ==
    IF de = "BufferDeserializer" THEN BufferDeserializer_deserialize_buffer(b).kids[1]
    ELSE BufferRefDeserializer_deserialize_buffer(b).kids[1]

RECURSIVE replay_seq_loop(_, _, _)
\* while let Some(e) = visitor.next_element()? { vec.push(e) } over a
\* de::value::SeqDeserializer of adapters of type de
replay_seq_loop(de, items, vec) ==
    IF items = <<>> THEN vec
    ELSE replay_seq_loop(de, Tail(items),
                         Vec_push(vec, <<Buffer_deserialize_adapter(de, Head(items))>>))

RECURSIVE replay_map_loop(_, _, _)
\* while let Some(kv) = visitor.next_entry()? { vec.push(kv) } over a
\* de::value::MapDeserializer of adapters of type de
replay_map_loop(de, items, vec) ==
    IF items = <<>> THEN vec
    ELSE replay_map_loop(de, Tail(Tail(items)),
                         Vec_push(vec, <<Buffer_deserialize_adapter(de, items[1]),
                                         Buffer_deserialize_adapter(de, items[2])>>))

\* BufferVisitor called with c by deserialize_any of an adapter of type de:
\* the value the visitor builds
BufferVisitor_visit(de, c) ==
    CASE c.cb = "visit_some" ->
            Buf("Some", <<>>, <<Buffer_deserialize_adapter(c.de, c.kids[1])>>)
      [] c.cb = "visit_newtype_struct" ->
            Buf("Newtype", <<>>, <<Buffer_deserialize_adapter(c.de, c.kids[1])>>)
      [] c.cb = "visit_seq" ->
            Buf("Seq", <<>>,
                replay_seq_loop(de, c.kids,
                                Vec_with_capacity(cautious(<<Len(c.kids)>>))).kids)
      [] c.cb = "visit_map" ->
            Buf("Map", <<>>,
                replay_map_loop(de, c.kids,
                                Vec_with_capacity(cautious(<<Len(c.kids) \div 2>>))).kids)
      [] OTHER -> Buf(ScalarCase(c.cb), c.val, <<>>)

\* adapter.deserialize_any(BufferVisitor::new()): the visitor drains the
\* access, so the adapter's end check finds nothing left
Rebuild(ad, de, c) ==
    /\ called' = c
    /\ adapter' = ad
    /\ target' = "any"
    /\ attempts' = attempts + 1
    /\ LET value == OkBuffer(BufferVisitor_visit(de, c))
       IN result' = CASE c.cb = "visit_seq" ->
                            SeqFinish(ad, value, value_end(Len(c.kids), 0, ""))
                      [] c.cb = "visit_map" ->
                            MapFinish(ad, value, value_end(Len(c.kids) \div 2, 0, ""))
                      [] OTHER -> value
    /\ UNCHANGED <<pc, source, iter, count, arity, sawNone, ret, failed>>
    /\ UNCHANGED helper

\* buffer.into_deserializer().deserialize_any(BufferVisitor::new())
OwnedRebuild ==
    /\ pc = "idle"
    /\ buffer \notin {NoBuffer, Moved}
    /\ attempts < MaxAttempts
    /\ LET de == BufferDeserializer_new(buffer)
       IN /\ wrapped' = de.buffer
          /\ buffer' = de.left
          /\ Rebuild("owned", "BufferDeserializer",
                     BufferDeserializer_deserialize_any(de.buffer))

\* (&buffer).into_deserializer().deserialize_any(BufferVisitor::new())
RefRebuild ==
    /\ pc = "idle"
    /\ buffer \notin {NoBuffer, Moved}
    /\ attempts < MaxAttempts
    /\ LET de == BufferRefDeserializer_new(buffer)
       IN /\ wrapped' = de.buffer
          /\ buffer' = de.left
          /\ Rebuild("ref", "BufferRefDeserializer",
                     BufferRefDeserializer_deserialize_any(de.buffer))

RebuildInit == InitFrom(Sources)
RebuildNext ==
    \/ Build
    \/ OwnedRebuild
    \/ RefRebuild
RebuildSpec == RebuildInit /\ [][RebuildNext]_vars

\* ------------------------------------------------ vocabulary of the claims
\* the value the decoder was buffered into
Built == Buffer_deserialize(source)

\* the adapter type of the current / last attempt
AdapterType == IF adapter = "owned" THEN "BufferDeserializer" ELSE "BufferRefDeserializer"

\* deserialize_<t> of the adapter type de over b
DeserializeWith(de, t, b) ==
    IF de = "BufferDeserializer" THEN BufferDeserializer_deserialize(t, b)
    ELSE BufferRefDeserializer_deserialize(t, b)

\* the shape a visitor callback stands for: the three string callbacks are
\* one shape, and so are the three byte callbacks
ShapeOfCallback(cb) ==
    CASE cb \in {"visit_str", "visit_borrowed_str", "visit_string"} -> "string"
      [] cb \in {"visit_bytes", "visit_borrowed_bytes", "visit_byte_buf"} -> "bytes"
      [] OTHER -> cb

\* the shape of a buffered case, named as the callback of that shape
ShapeOfTag(tag) ==
    CASE tag \in StringTags -> "string"
      [] tag \in BytesTags -> "bytes"
      [] tag = "Bool" -> "visit_bool"
      [] tag = "U8" -> "visit_u8"
      [] tag = "U16" -> "visit_u16"
      [] tag = "U32" -> "visit_u32"
      [] tag = "U64" -> "visit_u64"
      [] tag = "U128" -> "visit_u128"
      [] tag = "I8" -> "visit_i8"
      [] tag = "I16" -> "visit_i16"
      [] tag = "I32" -> "visit_i32"
      [] tag = "I64" -> "visit_i64"
      [] tag = "I128" -> "visit_i128"
      [] tag = "F32" -> "visit_f32"
      [] tag = "F64" -> "visit_f64"
      [] tag = "Char" -> "visit_char"
      [] tag = "Unit" -> "visit_unit"
      [] tag = "None" -> "visit_none"
      [] tag = "Some" -> "visit_some"
      [] tag = "Newtype" -> "visit_newtype_struct"
      [] tag = "Seq" -> "visit_seq"
      [] tag = "Map" -> "visit_map"

\* same visitor callback shape, or same error kind
SameOutcome(a, b) ==
    /\ a.ok = b.ok
    /\ IF a.ok THEN ShapeOfCallback(a.cb) = ShapeOfCallback(b.cb) ELSE a.cb = b.cb

\* the targets of a primitive's own type
OwnTargets(cb) ==
    CASE cb \in {"visit_str", "visit_borrowed_str", "visit_string"} -> {"str", "string"}
      [] cb \in {"visit_bytes", "visit_borrowed_bytes", "visit_byte_buf"} -> {"bytes", "byte_buf"}
      [] cb = "visit_bool" -> {"bool"}
      [] cb = "visit_u8" -> {"u8"}
      [] cb = "visit_u16" -> {"u16"}
      [] cb = "visit_u32" -> {"u32"}
      [] cb = "visit_u64" -> {"u64"}
      [] cb = "visit_u128" -> {"u128"}
      [] cb = "visit_i8" -> {"i8"}
      [] cb = "visit_i16" -> {"i16"}
      [] cb = "visit_i32" -> {"i32"}
      [] cb = "visit_i64" -> {"i64"}
      [] cb = "visit_i128" -> {"i128"}
      [] cb = "visit_f32" -> {"f32"}
      [] cb = "visit_f64" -> {"f64"}
      [] cb = "visit_char" -> {"char"}
      [] cb = "visit_unit" -> {"unit"}
      [] OTHER -> {}

\* the attempt made a call that replays a sequence / a map
SeqReplay == called.ok /\ called.cb = "visit_seq"
MapReplay == called.ok /\ called.cb = "visit_map"

\* ------------------------------------------------------------------ claims

\* C1: multi-use non-destruction.  After every attempt through the borrowing
\* adapter the caller's buffered value is still the value that was built,
\* and the attempt called the visitor exactly as the same attempt does on
\* the freshly built value, whatever attempts (failed or not) came before;
\* an attempt without replay ends with that call as its result.
C1_NonDestruction ==
    (adapter = "ref" /\ attempts > 0) =>
        /\ buffer = Built
        /\ wrapped = Built
        /\ called = BufferRefDeserializer_deserialize(target, Built)
        /\ (pc = "idle" /\ ~SeqReplay /\ ~MapReplay) => result = called

\* a borrowing attempt succeeds after an earlier attempt on the same value
\* has failed
C1_Witness ==
    /\ adapter = "ref" /\ pc = "idle"
    /\ attempts = 2 /\ failed = 1
    /\ result.ok

\* C2: round-trip identity.  A primitive pushed by a decoder, buffered, and
\* replayed through the owned adapter into a target of its own type reaches
\* the visitor through the callback of its own shape with the pushed value.
C2_RoundTrip ==
    (adapter = "owned" /\ attempts > 0 /\ source \in LeafSources
        /\ target \in OwnTargets(source.cb)) =>
        /\ called.ok
        /\ ShapeOfCallback(called.cb) = ShapeOfCallback(source.cb)
        /\ called.val = source.val
        /\ result = called

\* a u8 pushed as 255 came back through visit_u8
C2_Witness ==
    /\ adapter = "owned" /\ attempts > 0
    /\ source = Ev("visit_u8", <<255>>, <<>>)
    /\ target = "u8"
    /\ result = Call("visit_u8", <<255>>)

\* C3: enum-tag extraction in both adapters.  A Map with exactly one entry
\* hands the enum visitor tag and payload; a string case hands the string as
\* tag without payload; a Map with no or several entries is invalid_value
\* "map with a single key"; anything else is invalid_type "string or map";
\* the errors are returned without calling the visitor.
C3_EnumTag ==
    (attempts > 0 /\ target = "enum") =>
        CASE wrapped.tag = "Map" /\ Len(wrapped.kids) = 2 ->
                /\ called.ok /\ called.cb = "visit_enum"
                /\ called.kids = <<wrapped.kids[1], wrapped.kids[2]>>
          [] wrapped.tag = "Map" /\ Len(wrapped.kids) # 2 ->
                /\ ~called.ok /\ called.cb = "invalid_value"
                /\ called.exp = "map with a single key"
                /\ result = called
          [] wrapped.tag \in StringTags ->
                /\ called.ok /\ called.cb = "visit_enum"
                /\ called.kids = <<wrapped>>
          [] OTHER ->
                /\ ~called.ok /\ called.cb = "invalid_type"
                /\ called.exp = "string or map"
                /\ called.unexp = unexpected(wrapped).kind
                /\ result = called

\* a map of two entries was rejected as an enum by the owned adapter
C3_Witness ==
    /\ attempts > 0 /\ target = "enum" /\ adapter = "owned"
    /\ wrapped.tag = "Map" /\ Len(wrapped.kids) = 4
    /\ result.cb = "invalid_value"

\* C4: sequence length check.  A Seq of length n decoded into a sequence /
\* tuple target by a consumer of arity k succeeds iff k = n; for k < n the
\* consumer returned successfully and the decode is invalid_length; for
\* k > n the consumer was told that the sequence is exhausted and the
\* decode is invalid_length.
C4_SeqLength ==
    (pc = "idle" /\ attempts > 0 /\ target \in {"seq", "tuple", "tuple_struct"}
        /\ wrapped.tag = "Seq" /\ arity # DrainAll) =>
        LET n == Len(wrapped.kids)
        IN /\ SeqReplay
           /\ result.ok <=> arity = n
           /\ arity = n => result = called
           /\ arity < n => ret.ok /\ ~sawNone /\ ~result.ok /\ result.cb = "invalid_length"
           /\ arity > n => sawNone /\ ~result.ok /\ result.cb = "invalid_length"

\* a Seq of three items decoded by a consumer of arity two
C4_Witness ==
    /\ pc = "idle" /\ attempts > 0 /\ target = "tuple"
    /\ wrapped.tag = "Seq" /\ Len(wrapped.kids) = 3 /\ arity = 2
    /\ ret.ok /\ result.cb = "invalid_length"

\* C5 as stated: in the owned adapter a Unit value decoded against an
\* optional target is reported through the present-optional callback with
\* a unit payload.
C5_UnitAsPresent ==
    (adapter = "owned" /\ attempts > 0 /\ target = "option" /\ wrapped.tag = "Unit") =>
        /\ called.ok
        /\ called.cb = "visit_some"
        /\ called.kids = <<Buf("Unit", <<>>, <<>>)>>

\* C5 as amended: in the owned adapter a Unit value decoded against an
\* optional target succeeds and is reported through the visitor's unit
\* callback, neither through the absent-optional callback nor through the
\* present-optional one.
C5_UnitAsUnit ==
    (adapter = "owned" /\ attempts > 0 /\ target = "option" /\ wrapped.tag = "Unit") =>
        /\ called = Call("visit_unit", <<>>)
        /\ called.cb \notin {"visit_none", "visit_some"}
        /\ result = called

\* the owned adapter has decoded a Unit against an optional target
C5_Witness ==
    /\ adapter = "owned" /\ attempts > 0 /\ pc = "idle"
    /\ target = "option" /\ wrapped.tag = "Unit"
    /\ result.ok

\* C6 as stated: on a unit-struct target the borrowing adapter accepts an
\* empty Map and an empty Seq as unit and gives, for every value, the same
\* outcome as the owned adapter.
C6_UnitStructSame ==
    (adapter = "ref" /\ attempts > 0 /\ target = "unit_struct") =>
        /\ (wrapped.tag \in {"Map", "Seq"} /\ wrapped.kids = <<>>) =>
                called = Call("visit_unit", <<>>)
        /\ SameOutcome(called, BufferDeserializer_deserialize_unit_struct(wrapped))

\* C6 as amended: on a unit-struct target the borrowing adapter applies its
\* unit rule: only the Unit case is accepted and reported as unit, every
\* other case, an empty Map and an empty Seq included, is invalid_type
\* without a visitor call; it gives the same outcome as the owned adapter
\* exactly for the Unit case.
C6_UnitStructRef ==
    (adapter = "ref" /\ attempts > 0 /\ target = "unit_struct") =>
        /\ wrapped.tag = "Unit" => called = Call("visit_unit", <<>>)
        /\ wrapped.tag # "Unit" =>
                /\ ~called.ok /\ called.cb = "invalid_type"
                /\ called.unexp = unexpected(wrapped).kind
        /\ SameOutcome(called, BufferDeserializer_deserialize_unit_struct(wrapped))
                <=> wrapped.tag = "Unit"
        /\ result = called

\* the borrowing adapter has rejected an empty Seq as a unit struct
C6_Witness ==
    /\ adapter = "ref" /\ attempts > 0 /\ target = "unit_struct"
    /\ wrapped = Buf("Seq", <<>>, <<>>)
    /\ result.cb = "invalid_type"

\* C7: in the owned adapter a unit target accepts the Unit case and a Map
\* without entries, both reported as unit; every other case, a Map with
\* entries and an empty Seq included, is invalid_type carrying the value's
\* classification.
C7_OwnedUnit ==
    (adapter = "owned" /\ attempts > 0 /\ target = "unit") =>
        /\ result = called
        /\ IF wrapped.tag = "Unit" \/ (wrapped.tag = "Map" /\ wrapped.kids = <<>>)
           THEN called = Call("visit_unit", <<>>)
           ELSE /\ ~called.ok /\ called.cb = "invalid_type"
                /\ called.unexp = unexpected(wrapped).kind
                /\ called.val = unexpected(wrapped).val

\* the owned adapter has decoded an empty Map as unit
C7_Witness ==
    /\ adapter = "owned" /\ attempts > 0 /\ target = "unit"
    /\ wrapped = Buf("Map", <<>>, <<>>)
    /\ result = Call("visit_unit", <<>>)

\* C8: in the borrowing adapter a unit target matches only the Unit case;
\* every other case, a Map without entries included, is invalid_type and
\* the visitor is not called.
C8_RefUnit ==
    (adapter = "ref" /\ attempts > 0 /\ target = "unit") =>
        /\ result = called
        /\ IF wrapped.tag = "Unit"
           THEN called = Call("visit_unit", <<>>)
           ELSE ~called.ok /\ called.cb = "invalid_type"

\* the borrowing adapter has rejected an empty Map as unit
C8_Witness ==
    /\ adapter = "ref" /\ attempts > 0 /\ target = "unit"
    /\ wrapped = Buf("Map", <<>>, <<>>)
    /\ result.cb = "invalid_type"

\* C9: in the owned adapter a unit-struct target never fails with
\* invalid_type: an empty Map or Seq is reported as unit, every other case
\* reaches the callback of its own shape through the any-shape dispatch.
C9_OwnedUnitStruct ==
    (adapter = "owned" /\ attempts > 0 /\ target = "unit_struct") =>
        /\ called.ok
        /\ IF wrapped.tag \in {"Map", "Seq"} /\ wrapped.kids = <<>>
           THEN called = Call("visit_unit", <<>>)
           ELSE /\ called = BufferDeserializer_deserialize_any(wrapped)
                /\ ShapeOfCallback(called.cb) = ShapeOfTag(wrapped.tag)

\* the owned adapter has forwarded a string to a unit-struct visitor
C9_Witness ==
    /\ adapter = "owned" /\ attempts > 0 /\ target = "unit_struct"
    /\ wrapped.tag = "String"
    /\ result = Call("visit_string", wrapped.val)

\* C10: optional targets never fail at the optional level in either
\* adapter: None is reported as absent, Some(inner) as present with an
\* adapter over inner, and every case other than None, Some and Unit as
\* present with an adapter over the very same value, so that the adapter
\* handed to the visitor decodes into any target exactly as the value
\* itself does.
C10_Option ==
    (attempts > 0 /\ target = "option") =>
        /\ called.ok
        /\ result = called
        /\ wrapped.tag = "None" => called = Call("visit_none", <<>>)
        /\ wrapped.tag = "Some" =>
                called = CallWith("visit_some", AdapterType, <<wrapped.kids[1]>>)
        /\ wrapped.tag \notin {"None", "Some", "Unit"} =>
                /\ called = CallWith("visit_some", AdapterType, <<wrapped>>)
                /\ \A t \in Targets :
                      DeserializeWith(called.de, t, called.kids[1])
                          = DeserializeWith(AdapterType, t, wrapped)

\* the borrowing adapter has unwrapped a Some for an optional target
C10_Witness ==
    /\ adapter = "ref" /\ attempts > 0 /\ target = "option"
    /\ wrapped.tag = "Some"
    /\ result.cb = "visit_some" /\ result.kids = wrapped.kids

\* the value the build returned: with the caller until the first attempt,
\* in the adapter afterwards
Held == IF attempts = 0 THEN buffer ELSE wrapped

\* the scalar pushes of a decoder
ScalarPushes ==
    {"visit_bool", "visit_i8", "visit_i16", "visit_i32", "visit_i64", "visit_i128",
     "visit_u8", "visit_u16", "visit_u32", "visit_u64", "visit_u128",
     "visit_f32", "visit_f64", "visit_char", "visit_unit", "visit_none",
     "visit_str", "visit_borrowed_str", "visit_string",
     "visit_bytes", "visit_borrowed_bytes", "visit_byte_buf"}

\* C11: builder scalar pushes and borrow preservation.  A scalar push never
\* fails the build and yields the case of the same shape holding the pushed
\* value; a slice pushed as borrowed from the input yields BorrowedString /
\* BorrowedBytes (Str / Bytes), a transient slice or an owned buffer yields
\* OwnedString / OwnedBytes (String / ByteBuf), never a borrowed case.
C11_ScalarPush ==
    (pc # "start" /\ source.cb \in ScalarPushes) =>
        /\ pc # "build_failed"
        /\ ShapeOfTag(Held.tag) = ShapeOfCallback(source.cb)
        /\ Held.val = source.val
        /\ Held.kids = <<>>
        /\ source.cb = "visit_borrowed_str" => Held.tag = "Str"
        /\ source.cb = "visit_borrowed_bytes" => Held.tag = "Bytes"
        /\ source.cb \in {"visit_str", "visit_string"} => Held.tag = "String"
        /\ source.cb \in {"visit_bytes", "visit_byte_buf"} => Held.tag = "ByteBuf"

\* a transient string slice has been pushed and is held as an owned string
C11_Witness ==
    /\ pc = "idle" /\ attempts = 0
    /\ source.cb = "visit_str"
    /\ buffer = Buf("String", source.val, <<>>)

\* the items of the source access, each buffered on its own, in pull order
Pulled == [i \in 1..Len(source.kids) |-> Buffer_deserialize(source.kids[i])]
\* the pulls that fail
FailedPulls == {i \in 1..Len(source.kids) : Failed(Pulled[i])}

\* C12: builder sequence and map pushes.  The build of a sequence (map)
\* access yields a Seq (Map) holding exactly the pulled items in pull
\* order, duplicate keys kept, whatever size hint the access reported; if a
\* pull fails, the build fails with the error of the first failing pull and
\* no value is produced.
C12_PullAll ==
    (pc # "start" /\ source.cb \in {"visit_seq", "visit_map"}) =>
        IF FailedPulls = {}
        THEN /\ pc = "idle"
             /\ buffer = Buf(IF source.cb = "visit_seq" THEN "Seq" ELSE "Map",
                             <<>>, Pulled)
        ELSE /\ pc = "build_failed"
             /\ buffer = NoBuffer
             /\ \E i \in FailedPulls :
                    /\ \A j \in FailedPulls : i <= j
                    /\ result = build_error(Pulled[i])

\* a map access that reported the size hint 0 has been buffered with its
\* two entries, which have the same key
C12_Witness ==
    /\ pc = "idle"
    /\ source.cb = "visit_map" /\ source.val = <<0>>
    /\ buffer.tag = "Map" /\ Len(buffer.kids) = 4
    /\ buffer.kids[1] = buffer.kids[3]
    /\ buffer.kids[2] # buffer.kids[4]

\* C13: an enum push to the builder always fails with the custom
\* (unsupported) error, whatever variant and payload the enum access holds;
\* the access is never asked for anything and no buffered value is produced,
\* so no replay attempt can follow.
C13_EnumPush ==
    (pc # "start" /\ source.cb = "visit_enum") =>
        /\ pc = "build_failed"
        /\ buffer = NoBuffer
        /\ result = Err("custom", "", <<>>,
                "untagged and internally tagged enums do not support enum input")
        /\ count = 0 /\ iter = <<>>
        /\ attempts = 0 /\ called = NoCall

\* the push of an enum access holding a variant and a payload has failed
C13_Witness ==
    /\ pc = "build_failed"
    /\ source.cb = "visit_enum" /\ Len(source.kids) = 2
    /\ ~result.ok /\ result.cb = "custom"

\* C14: requesting the buffered value back out of a replay adapter is the
\* identity.  Buffer::deserialize over the owned adapter returns the value
\* the adapter took from the caller; over the borrowing adapter it returns
\* a value equal to the one the caller still holds (same cases, owned and
\* borrowed kept apart, wrappers kept, same order).  No visitor callback
\* is made.
C14_BufferIdentity ==
    (attempts > 0 /\ target = "buffer") =>
        /\ pc = "idle"
        /\ called.ok /\ called.cb = "Ok" /\ called.de = "Buffer"
        /\ called.kids = <<Built>>
        /\ result = called
        /\ adapter = "owned" => buffer = Moved
        /\ adapter = "ref" => buffer = called.kids[1]

\* a borrowing adapter over Some(owned string) has returned Some(owned
\* string); a wrapped borrowed string comes back borrowed
C14_Witness ==
    /\ target = "buffer" /\ adapter = "ref" /\ attempts > 0
    /\ result.ok /\ result.kids # <<>>
    /\ result.kids[1].tag \in {"Some", "Newtype"}
    /\ result.kids[1].kids[1].tag = "Str"

\* the attempt was refused with Invalid Type carrying the classification of
\* the wrapped case, the visitor was not called
RefusedAsInvalidType ==
    /\ ~called.ok /\ called.cb = "invalid_type"
    /\ called.unexp = unexpected(wrapped).kind
    /\ called.val = unexpected(wrapped).val
    /\ pc = "idle" /\ result = called

\* the attempt forwarded the wrapped scalar through the callback of shape s
ForwardedAs(s) ==
    /\ called.ok /\ ShapeOfCallback(called.cb) = s
    /\ called.val = wrapped.val
    /\ pc = "idle" /\ result = called

\* C15: integer and float targets, both adapters.  An integer target of any
\* width forwards each of the ten integer cases unchanged through the
\* callback of the stored width and signedness and refuses every other
\* case, the float cases included, with Invalid Type; a float target
\* forwards the float cases through their own callbacks and the integer
\* cases through the integer callback of the stored width, and refuses
\* every other case with Invalid Type.
C15_Numbers ==
    (attempts > 0 /\ target \in IntegerTargets \cup FloatTargets) =>
        /\ wrapped = Built
        /\ IF \/ wrapped.tag \in IntegerTags
              \/ wrapped.tag \in FloatTags /\ target \in FloatTargets
           THEN /\ ForwardedAs(ShapeOfTag(wrapped.tag))
                /\ called.cb = ShapeOfTag(wrapped.tag)
           ELSE RefusedAsInvalidType

\* a stored 16-bit signed integer has reached a 64-bit float target through
\* the borrowing adapter as visit_i16
C15_Witness ==
    /\ attempts > 0 /\ adapter = "ref" /\ target = "f64"
    /\ wrapped.tag = "I16"
    /\ result = Call("visit_i16", <<-32768>>)

\* C16: string and byte-buffer targets, both adapters.  A string target
\* accepts exactly the four cases OwnedString, BorrowedString, OwnedBytes,
\* BorrowedBytes; a string case is forwarded through a string callback and
\* a byte case through a bytes callback with its bytes as stored, valid
\* UTF-8 or not.  A byte-buffer target accepts those four the same way and
\* also a Seq, which is replayed as a sequence.  Every other case is
\* refused with Invalid Type.
C16_StringsAndBytes ==
    (attempts > 0 /\ target \in {"str", "string", "bytes", "byte_buf"}) =>
        /\ wrapped = Built
        /\ CASE wrapped.tag \in StringTags -> ForwardedAs("string")
             [] wrapped.tag \in BytesTags -> ForwardedAs("bytes")
             [] wrapped.tag = "Seq" /\ target \in {"bytes", "byte_buf"} ->
                    SeqReplay /\ called.kids = wrapped.kids
             [] OTHER -> RefusedAsInvalidType

\* owned bytes that are not valid UTF-8 have reached a string target
\* through the owned adapter as bytes
C16_Witness ==
    /\ attempts > 0 /\ adapter = "owned" /\ target = "string"
    /\ wrapped = Buf("ByteBuf", <<255>>, <<>>)
    /\ result = Call("visit_byte_buf", <<255>>)

\* C17: newtype targets, both adapters, never fail at the newtype level.
\* visit_newtype_struct receives an adapter of the same type over the inner
\* value of a Newtype case, and over the value itself for any other case,
\* so Newtype(x) and x have the same outcome.
C17_Newtype ==
    (attempts > 0 /\ target = "newtype_struct") =>
        /\ wrapped = Built
        /\ called.ok /\ called.cb = "visit_newtype_struct"
        /\ called.de = AdapterType
        /\ called.kids = IF wrapped.tag = "Newtype" THEN wrapped.kids ELSE <<wrapped>>
        /\ pc = "idle" /\ result = called
        /\ (wrapped.tag = "Newtype" /\ wrapped.kids[1].tag # "Newtype") =>
                called = DeserializeWith(AdapterType, "newtype_struct", wrapped.kids[1])

\* a Newtype over a sequence has been unwrapped by the borrowing adapter
C17_Witness ==
    /\ attempts > 0 /\ adapter = "ref" /\ target = "newtype_struct"
    /\ wrapped.tag = "Newtype"
    /\ result.ok /\ result.kids # <<>> /\ result.kids[1].tag = "Seq"

\* C18: composite target shape checks, both adapters.  Sequence, tuple and
\* tuple-struct targets accept only a Seq; a map target accepts only a Map
\* (a Seq is refused); a struct target accepts a Map, replayed as a map,
\* and a Seq, replayed as a sequence.  Every other case is refused with
\* Invalid Type carrying the classification of the observed case, and the
\* visitor is not called.
C18_Composites ==
    (attempts > 0 /\ target \in {"seq", "tuple", "tuple_struct", "map", "struct"}) =>
        /\ wrapped = Built
        /\ CASE wrapped.tag = "Seq" /\ target # "map" ->
                    SeqReplay /\ called.kids = wrapped.kids
             [] wrapped.tag = "Map" /\ target \in {"map", "struct"} ->
                    MapReplay /\ called.kids = wrapped.kids
             [] OTHER -> RefusedAsInvalidType

\* a map target has refused a Seq through the owned adapter
C18_Witness ==
    /\ attempts > 0 /\ adapter = "owned" /\ target = "map"
    /\ wrapped.tag = "Seq" /\ Len(wrapped.kids) = 2
    /\ result = Err("invalid_type", "Seq", <<>>, "visitor")

\* C19: as_str returns the text of both string cases, the text of a byte
\* case exactly when its bytes are valid UTF-8, and nothing for a byte case
\* that is not valid UTF-8 and for every other case (Char, Newtype or Some
\* of a string included); the value is left as it was built.
C19_AsStr ==
    target = "as_str" =>
        /\ buffer = Built
        /\ pc = "idle"
        /\ CASE buffer.tag \in StringTags -> result = SomeStr(buffer.val)
             [] buffer.tag \in BytesTags ->
                    /\ result = IF Utf8Valid(buffer.val) THEN SomeStr(buffer.val) ELSE NoStr
                    /\ buffer.val = <<255>> => result = NoStr
                    /\ buffer.val = <<195, 159>> => result = SomeStr(<<195, 159>>)
             [] OTHER -> result = NoStr

\* as_str has returned the text of owned bytes that hold a two-byte
\* UTF-8 sequence
C19_Witness ==
    /\ target = "as_str"
    /\ buffer = Buf("ByteBuf", <<195, 159>>, <<>>)
    /\ result = SomeStr(<<195, 159>>)

\* the entries of the map payload under replay, flattened
PayloadEntries == called.kids[2].kids
\* the map helper's answer to a value request that cannot be served
ValueIsMissing == Err("custom", "", <<>>, "value is missing")

\* C20: map-replay key/value protocol of the owned and the borrowing map
\* helper.  Whatever requests came before, a next-value request is answered
\* with the value paired with the key returned last, handed to the seed in
\* an adapter of the helper's kind, if that value has not been taken yet;
\* otherwise (no key returned so far, or the value already taken) it fails
\* with "value is missing".  A key request that reported exhaustion changes
\* neither.
C20_ValueProtocol ==
    [][MapNextValueSeed =>
          IF count > 0 /\ ~value_taken
          THEN reply' = CallWith("value", AdapterType, <<PayloadEntries[2 * count]>>)
          ELSE reply' = ValueIsMissing]_vars

\* the borrowing map helper has handed out the value of the second key it
\* returned, which differs from the value of the first
C20_Witness ==
    /\ pc = "vmap" /\ adapter = "ref"
    /\ count = 2 /\ value_taken
    /\ PayloadEntries[2] # PayloadEntries[4]
    /\ reply = CallWith("value", "BufferRefDeserializer", <<PayloadEntries[4]>>)

\* the key request follows a key request that returned a key whose value
\* has not been asked for
KeyAfterKey == MapNextKeySeed /\ reply.ok /\ reply.cb = "key" /\ ~value_taken

\* C21 as stated: in map replay a second key request in a row, with no
\* value request in between, fails with the "value is missing" error
\* instead of returning the key of the following entry.
C21_KeyTwiceGuarded ==
    [][KeyAfterKey => reply' = ValueIsMissing]_vars

\* C21, amended: a second key request in a row is not refused.  It returns
\* the key of the following entry, whose value replaces the pending one
\* (which can no longer be obtained), or reports exhaustion and leaves the
\* pending value in place; it never fails with "value is missing".
C21_KeyTwiceAdvances ==
    [][KeyAfterKey =>
          IF 2 * count < Len(PayloadEntries)
          THEN /\ reply' = CallWith("key", AdapterType, <<PayloadEntries[2 * count + 1]>>)
               /\ map_value' = <<PayloadEntries[2 * count + 2]>>
               /\ skipped' = skipped + 1
          ELSE /\ reply' = Call("None", <<>>)
               /\ map_value' = map_value
               /\ skipped' = skipped]_vars

\* the borrowing map helper has returned a second key while the value of
\* the first was still pending, and now holds the value of the second
C21_Witness ==
    /\ pc = "vmap" /\ adapter = "ref"
    /\ count = 2 /\ skipped = 1
    /\ reply = CallWith("key", "BufferRefDeserializer", <<PayloadEntries[3]>>)
    /\ map_value = <<PayloadEntries[4]>>

\* the number of items (elements, or entries) of the payload under replay
PayloadItems ==
    IF pc = "vmap" THEN Len(PayloadEntries) \div 2 ELSE Len(PayloadEntries)

\* C22: sequence / map replay cursors of the owned and borrowing helpers.
\* Over a payload of n items the i-th next-element (next-key) request
\* returns the i-th item in original order, every request after the n-th
\* reports exhaustion and returns nothing, so no item is returned twice or
\* skipped; the size hint reported at any point is the number of items not
\* yet returned.
C22_Cursors ==
    [][/\ SeqNextElementSeed =>
            IF count < PayloadItems
            THEN /\ reply' = CallWith("element", AdapterType, <<PayloadEntries[count + 1]>>)
                 /\ count' = count + 1
            ELSE /\ reply' = Call("None", <<>>)
                 /\ count' = count
       /\ MapNextKeySeed =>
            IF count < PayloadItems
            THEN /\ reply' = CallWith("key", AdapterType, <<PayloadEntries[2 * count + 1]>>)
                 /\ count' = count + 1
            ELSE /\ reply' = Call("None", <<>>)
                 /\ count' = count
       /\ (SeqSizeHint \/ MapSizeHint) =>
            reply' = Call("size_hint", <<PayloadItems - count>>)]_vars

\* after one of three keys the owned map helper reports the size hint 2
C22_Witness ==
    /\ pc = "vmap" /\ adapter = "owned"
    /\ Len(PayloadEntries) = 6 /\ count = 1
    /\ reply = Call("size_hint", <<2>>)

\* the enum access under replay holds a payload
HasPayload == Len(called.kids) = 2
\* that payload
Payload == called.kids[2]
\* Invalid Type for a request that found no payload
NoPayloadFor(exp) == Err("invalid_type", "UnitVariant", <<>>, exp)
\* Invalid Type for a request that found a payload of the wrong case
WrongPayloadFor(exp) ==
    Err("invalid_type", unexpected(Payload).kind, unexpected(Payload).val, exp)

\* C23: enum payload rules of both enum-tag adapters.  A unit-variant
\* request succeeds at once without a payload, and with one it has the
\* outcome of decoding the payload as a unit target.  A newtype-variant
\* request hands the payload to the seed and fails with Invalid Type (unit
\* variant seen, "newtype variant" expected) without one.  A tuple-variant
\* request takes only a Seq payload, a struct-variant request only a Map or
\* Seq payload; without a payload or with any other case they fail with
\* Invalid Type.
C23_PayloadRules ==
    [][/\ UnitVariant =>
            IF ~HasPayload THEN result' = OkUnit
            ELSE LET unit == DeserializeWith(AdapterType, "unit", Payload)
                 IN /\ result'.ok = unit.ok
                    /\ unit.ok => result' = OkUnit
                    /\ ~unit.ok => result' = unit
       /\ NewtypeVariantSeed =>
            IF HasPayload
            THEN result' = CallWith("newtype_variant_seed", AdapterType, <<Payload>>)
            ELSE result' = NoPayloadFor("newtype variant")
       /\ TupleVariant =>
            CASE ~HasPayload -> result' = NoPayloadFor("tuple variant")
              [] HasPayload /\ Payload.tag = "Seq" ->
                    /\ reply'.ok
                    /\ reply'.cb \in {"visit_unit", "visit_seq"}
              [] OTHER -> result' = WrongPayloadFor("tuple variant")
       /\ StructVariant =>
            CASE ~HasPayload -> result' = NoPayloadFor("struct variant")
              [] HasPayload /\ Payload.tag = "Seq" ->
                    /\ reply'.ok
                    /\ reply'.cb \in {"visit_unit", "visit_seq"}
              [] HasPayload /\ Payload.tag = "Map" ->
                    /\ reply'.ok /\ reply'.cb = "visit_map"
                    /\ reply'.kids = Payload.kids
              [] OTHER -> result' = WrongPayloadFor("struct variant")]_vars

\* a newtype-variant request on a bare string, which has no payload, has
\* failed through the borrowing adapter
C23_Witness ==
    /\ pc = "idle" /\ adapter = "ref" /\ target = "enum"
    /\ wrapped.tag \in StringTags
    /\ result = Err("invalid_type", "UnitVariant", <<>>, "newtype variant")

\* the cases an identifier target accepts
IdentifierTags == {"String", "Str", "ByteBuf", "Bytes", "U8", "U64"}

\* C24: identifier targets, both adapters.  Exactly the six cases
\* OwnedString, BorrowedString, OwnedBytes, BorrowedBytes, U8 and U64 are
\* accepted, each forwarded unchanged through the callback of its own
\* shape; every other case, U16, U32, U128 and the signed integers
\* included, is refused with Invalid Type.
C24_Identifier ==
    (attempts > 0 /\ target = "identifier") =>
        /\ wrapped = Built
        /\ IF wrapped.tag \in IdentifierTags
           THEN ForwardedAs(ShapeOfTag(wrapped.tag))
           ELSE RefusedAsInvalidType
        /\ wrapped.tag \in (IntegerTags \ {"U8", "U64"}) => ~result.ok

\* a stored 32-bit unsigned integer has been refused by the identifier
\* target of the owned adapter
C24_Witness ==
    /\ attempts > 0 /\ adapter = "owned" /\ target = "identifier"
    /\ wrapped.tag = "U32"
    /\ result = invalid_type(wrapped)

RECURSIVE SameTree(_, _)
\* a and b have the same tree shape, the same case at every node up to
\* owned or borrowed storage of strings and bytes, the same scalar
\* contents, and their items and entries in the same order and number
SameTree(a, b) ==
    /\ ShapeOfTag(a.tag) = ShapeOfTag(b.tag)
    /\ a.val = b.val
    /\ Len(a.kids) = Len(b.kids)
    /\ \A i \in 1..Len(a.kids) : SameTree(a.kids[i], b.kids[i])

\* C25: general-dispatch round trip.  Replaying a buffered value through
\* deserialize_any of either adapter calls the callback of the value's own
\* shape, and a builder driven by that replay returns a value with the
\* same tree shape, the same case at every node up to owned or borrowed
\* string / byte storage, the same scalars, and the same order and length
\* of sequences and maps.
C25_RoundTrip ==
    attempts > 0 =>
        /\ wrapped = Built
        /\ called.ok
        /\ ShapeOfCallback(called.cb) = ShapeOfTag(wrapped.tag)
        /\ result.ok /\ result.cb = "Ok"
        /\ SameTree(result.kids[1], wrapped)

\* a map holding an owned string has been rebuilt through the borrowing
\* adapter, entry for entry
C25_Witness ==
    /\ attempts > 0 /\ adapter = "ref"
    /\ wrapped.tag = "Map" /\ Len(wrapped.kids) >= 4
    /\ \E i \in 1..Len(wrapped.kids) : wrapped.kids[i].tag = "String"
    /\ result = OkBuffer(wrapped)

\* the borrowing counterpart of what the owned adapter hands to the visitor
RefCounterpart(de) ==
    CASE de = "BufferDeserializer" -> "BufferRefDeserializer"
      [] de = "EnumDeserializer" -> "EnumRefDeserializer"
      [] OTHER -> de

\* C26: the owned and the borrowing adapter agree outside the unit family.
\* For every buffered value and every target other than unit and unit
\* struct, both call the visitor callback of the same shape with equal data
\* or fail with the same error; they differ only in handing an owned
\* string / byte buffer over by value or by reference.  The char target of
\* both accepts exactly Char, OwnedString and BorrowedString.
C26_AdaptersAgree ==
    (attempts > 0 /\ target \in Targets \ {"unit", "unit_struct"}) =>
        LET o == BufferDeserializer_deserialize(target, wrapped)
            r == BufferRefDeserializer_deserialize(target, wrapped)
        IN /\ wrapped = Built
           /\ called = IF adapter = "owned" THEN o ELSE r
           /\ SameOutcome(o, r)
           /\ o.val = r.val /\ o.kids = r.kids
           /\ r.de = RefCounterpart(o.de)
           /\ ~o.ok => o = r
           /\ o.cb # r.cb =>
                 /\ wrapped.tag \in {"String", "ByteBuf"}
                 /\ o.cb \in {"visit_string", "visit_byte_buf"}
                 /\ r.cb \in {"visit_str", "visit_bytes"}
           /\ target = "char" =>
                 (called.ok <=> wrapped.tag \in {"Char", "String", "Str"})

\* the borrowing adapter has handed an owned string to a char target by
\* reference, where the owned adapter hands it over by value
C26_Witness ==
    /\ attempts > 0 /\ adapter = "ref" /\ target = "char"
    /\ wrapped.tag = "String"
    /\ result = Call("visit_str", wrapped.val)
    /\ BufferDeserializer_deserialize(target, wrapped) = Call("visit_string", wrapped.val)

\* the sequence helper type of the adapter in use
SeqHelperType == IF adapter = "owned" THEN "SeqDeserializer" ELSE "SeqRefDeserializer"

\* C27: a tuple-variant or struct-variant request that finds a Seq payload
\* of length zero calls the visitor's unit callback and never its sequence
\* callback; with a non-empty Seq payload it calls the sequence callback,
\* and when that returns successfully with elements left undrained the
\* request fails with Invalid Length reporting the payload's original
\* length.
C27_SeqPayload ==
    [][/\ ((TupleVariant \/ StructVariant) /\ HasPayload /\ Payload.tag = "Seq") =>
            IF Len(Payload.kids) = 0
            THEN /\ reply' = Call("visit_unit", <<>>)
                 /\ result' = reply'
                 /\ pc' = "idle"
            ELSE /\ reply' = CallWith("visit_seq", SeqHelperType, Payload.kids)
                 /\ pc' = "vseq"
                 /\ iter' = Payload.kids
       /\ pc' = "vseq" => Len(Payload.kids) > 0
       /\ VisitSeqReturn =>
            /\ ret'.ok /\ ret'.cb = "visit_seq"
            /\ IF count < Len(Payload.kids)
               THEN result' = Err("invalid_length", "", <<Len(Payload.kids)>>,
                                  "fewer elements in array")
               ELSE result' = ret']_vars

\* a Seq payload of two elements was handed to the visitor through the
\* borrowing helper, which returned after one element: Invalid Length 2
C27_Witness ==
    /\ pc = "idle" /\ adapter = "ref" /\ target = "enum"
    /\ HasPayload /\ Payload.tag = "Seq" /\ Len(Payload.kids) = 2
    /\ count = 1 /\ ret.ok /\ ret.cb = "visit_seq"
    /\ result = Err("invalid_length", "", <<2>>, "fewer elements in array")

\* C28: undrained map entries are checked for map and struct targets but
\* not for struct variants.  When the consumer of a Map replayed through a
\* map or struct target returns successfully without having pulled every
\* entry, the attempt fails with Invalid Length; when the visitor of a
\* struct-variant request over a Map payload returns, its result is
\* returned unchanged, entries left unpulled or not.
C28_UndrainedEntries ==
    [][/\ (MapReturn /\ target \in MapTargets) =>
            /\ ret'.ok
            /\ IF 2 * count < Len(wrapped.kids)
               THEN ~result'.ok /\ result'.cb = "invalid_length"
               ELSE result' = ret'
       /\ VisitMapReturn =>
            /\ Payload.tag = "Map"
            /\ result' = ret'
            /\ reply.ok => result'.ok /\ result'.cb = "visit_map"]_vars

\* the visitor of a struct-variant request over a Map payload of three
\* entries has returned successfully after one key, and so has the request
C28_Witness ==
    /\ pc = "idle" /\ adapter = "owned" /\ target = "enum"
    /\ HasPayload /\ Payload.tag = "Map" /\ Len(Payload.kids) = 6
    /\ count = 1 /\ Len(iter) = 4
    /\ ret.ok /\ result = ret /\ result.cb = "visit_map"

====
